---- MODULE Spec2Model ----
(***************************************************************************)
(* Intent classification and follow-up generation of the persona chat      *)
(* service (src/ai_intent_classifier.py, src/intent_classifier.py,         *)
(* src/chain_query_generator.py, src/lm_studio_client.py).                 *)
(*                                                                         *)
(* Texts are sequences of tokens.  A gateway classification response is a  *)
(* sequence of lexical tokens (braces, JSON members, free words, numerals) *)
(* rendered with a blank between tokens; the regular expressions and       *)
(* json.loads of the source are computed on that sequence.  Confidences    *)
(* are fixed-point integers: One stands for 1.0.                           *)
(***************************************************************************)
EXTENDS Integers, Sequences, FiniteSets, TLC

(***************************************************************************)
(* Bounds of the model.                                                    *)
(***************************************************************************)
\* longest gateway classification response, in tokens
MaxRespLen == 4

(***************************************************************************)
(* Fixed-point confidences and the program's confidence constants.         *)
(***************************************************************************)
\* 1.0, the upper clamp of _parse_ai_response
One == 10000
\* 0.0, the lower clamp of _parse_ai_response
Zero == 0
\* numerals above 1 are read as a percentage: conf_val / 100
Percent == 100
\* confidence of the empty-message default of AIIntentClassifier
EmptyConfidence == 1000

\* confidence returned when the gateway call raised
GatewayErrorConfidence == 3000

\* the parse failure answered like a gateway failure
ParseFailAsGatewayError == GatewayErrorConfidence

\* confidence returned when _parse_ai_response found nothing
ParseFailConfidence == 5000
\* default confidence of the keyword scan
KeywordConfidence == 8000

\* keys of intent_categories, in insertion (iteration) order
IntentOrder == <<"greetings", "query", "information", "feedback">>

Intents == {IntentOrder[i] : i \in 1..Len(IntentOrder)}

(***************************************************************************)
(* Tokens of a gateway classification response.                            *)
(***************************************************************************)
LBrace == "{"
RBrace == "}"
\* JSON members
MIntentQuery == "\"intent\": \"query\""
MIntentOther == "\"intent\": \"chitchat\""
MIntentList == "\"intent\": [\"query\"]"
MConfHigh == "\"confidence\": 1.5"
MConfNeg == "\"confidence\": -0.5"
MConfText == "\"confidence\": \"high\""
\* free text
WGreetings == "greetings"
WFeedback == "feedback"
WMisinformation == "Misinformation"
N250 == "250"

RespTokens ==
    {LBrace, RBrace, MIntentQuery, MIntentOther, MIntentList, MConfHigh,
     MConfNeg, MConfText, WGreetings, WFeedback, WMisinformation, N250}

\* the tokens that are JSON members ("key": value)
IsMember(t) ==
    t \in {MIntentQuery, MIntentOther, MIntentList, MConfHigh, MConfNeg, MConfText}

MemberKey(t) ==
    IF t \in {MIntentQuery, MIntentOther, MIntentList}
    THEN "intent"
    ELSE "confidence"

\* a JSON value: a string (s), a number (n, fixed-point) or a list
StrVal(s) == [type |-> "str", s |-> s, n |-> 0]
ListVal == [type |-> "list", s |-> "", n |-> 0]
NumVal(n) == [type |-> "num", s |-> "", n |-> n]

MemberValue(t) ==
    CASE t = MIntentQuery -> StrVal("query")
      [] t = MIntentOther -> StrVal("chitchat")
      [] t = MIntentList -> ListVal
      [] t = MConfHigh -> NumVal(15000)
      [] t = MConfNeg -> NumVal(-5000)
      [] OTHER -> StrVal("high")

\* the text "intent" in double quotes occurs in the token
HasIntentKey(t) == t \in {MIntentQuery, MIntentOther, MIntentList}

\* the intent labels that occur in the lowercased token as a substring
LabelsIn(t) ==
    CASE t \in {MIntentQuery, MIntentList} -> {"query"}
      [] t = WGreetings -> {"greetings"}
      [] t = WFeedback -> {"feedback"}
      [] t = WMisinformation -> {"information"}
      [] OTHER -> {}

\* the intent labels that occur in the lowercased token as a whole word
WholeWordLabelsIn(t) ==
    CASE t \in {MIntentQuery, MIntentList} -> {"query"}
      [] t = WGreetings -> {"greetings"}
      [] t = WFeedback -> {"feedback"}
      [] OTHER -> {}

\* the first match of (\d+\.?\d*) in the token, fixed-point; -1 when none.
\* The expression has no sign: in -0.5 it matches 0.5.
NumeralIn(t) ==
    CASE t = MConfHigh -> 15000
      [] t = MConfNeg -> 5000
      [] t = N250 -> 2500000
      [] OTHER -> -1

(***************************************************************************)
(* The text generation gateway: LMStudioClient.chat_completion.            *)
(***************************************************************************)
\* what the transport does with one request
TransportFailures ==
    {"timeout", "connection_error", "status_error", "malformed_body"}

NoText == <<>>

Transport(kind, text) == [kind |-> kind, text |-> text]

\* the result of a call: an exception, or the content of the first choice
\* (a text, or null when the backend sent no text)
Raised == [exc |-> TRUE, null |-> FALSE, text |-> NoText]
Returned(text) == [exc |-> FALSE, null |-> FALSE, text |-> text]
ReturnedNull == [exc |-> FALSE, null |-> TRUE, text |-> NoText]

ChatCompletion(tr) ==
    IF tr.kind \in TransportFailures THEN Raised
    ELSE IF tr.kind = "content_null" THEN ReturnedNull
    ELSE Returned(tr.text)

(***************************************************************************)
(* AIIntentClassifier: parsing of the gateway's classification response.   *)
(***************************************************************************)
\* the position of the first "}" after position i, 0 when there is none
FirstRBraceAfter(resp, i) ==
    LET ks == {k \in (i + 1)..Len(resp) : resp[k] = RBrace}
    IN IF ks = {} THEN 0 ELSE CHOOSE k \in ks : \A k2 \in ks : k <= k2

\* re.search(r'\{[^}]*"intent"[^}]*\}') matches from position i
MatchesAt(resp, i) ==
    /\ resp[i] = LBrace
    /\ FirstRBraceAfter(resp, i) > 0
    /\ \E j \in (i + 1)..(FirstRBraceAfter(resp, i) - 1) : HasIntentKey(resp[j])

\* the leftmost match <<first, last>>, <<0, 0>> when nothing matches
JsonSearch(resp) ==
    LET starts == {i \in 1..Len(resp) : MatchesAt(resp, i)}
    IN IF starts = {} THEN <<0, 0>>
       ELSE LET i == CHOOSE i \in starts : \A i2 \in starts : i <= i2
            IN <<i, FirstRBraceAfter(resp, i)>>

\* json.loads accepts the matched text: an object of members
JsonValid(js) ==
    /\ Len(js) >= 2
    /\ js[1] = LBrace
    /\ js[Len(js)] = RBrace
    /\ \A j \in 2..(Len(js) - 1) : IsMember(js[j])

\* the position of the last member with the key (a repeated key keeps the
\* last value), 0 when the key is absent
LastMember(js, key) ==
    LET ps == {j \in 2..(Len(js) - 1) : IsMember(js[j]) /\ MemberKey(js[j]) = key}
    IN IF ps = {} THEN 0 ELSE CHOOSE j \in ps : \A j2 \in ps : j2 <= j

\* the dict json.loads builds, as far as the validation reads it
JsonLoads(js) ==
    [hasIntent |-> LastMember(js, "intent") > 0,
     intent |-> IF LastMember(js, "intent") > 0
                THEN MemberValue(js[LastMember(js, "intent")])
                ELSE StrVal(""),
     hasConfidence |-> LastMember(js, "confidence") > 0,
     confidence |-> IF LastMember(js, "confidence") > 0
                    THEN MemberValue(js[LastMember(js, "confidence")])
                    ELSE StrVal("")]

Min(a, b) == IF a <= b THEN a ELSE b
Max(a, b) == IF a >= b THEN a ELSE b

\* the confidence taken as it is, without the clamp
ClampConfidenceNone(c) == c

\* max(0.0, min(1.0, confidence))
ClampConfidence(c) == Max(Zero, Min(One, c))

\* result['intent'] in self.intent_categories raises TypeError on a list
Unhashable(result) == result.hasIntent /\ result.intent.type = "list"

\* the validation without the membership test of the label
ValidResultAnyLabel(result) ==
    /\ result.hasIntent
    /\ result.intent.type = "str"
    /\ result.hasConfidence
    /\ result.confidence.type = "num"

\* the validation of the parsed object
ValidResult(result) ==
    /\ result.hasIntent
    /\ result.intent.type = "str"
    /\ result.intent.s \in Intents
    /\ result.hasConfidence
    /\ result.confidence.type = "num"

NoResult(tiers) ==
    [found |-> FALSE, intent |-> "", confidence |-> 0, tiers |-> tiers]
Result(intent, confidence, tiers) ==
    [found |-> TRUE, intent |-> intent, confidence |-> confidence, tiers |-> tiers]

\* the first numeral of the response, -1 when it has none
FirstNumeral(resp) ==
    LET ps == {j \in 1..Len(resp) : NumeralIn(resp[j]) >= 0}
    IN IF ps = {} THEN -1
       ELSE NumeralIn(resp[CHOOSE j \in ps : \A j2 \in ps : j <= j2])

\* the numeral taken as it is, never as a percentage
TextConfidenceNoPercent(resp) ==
    IF FirstNumeral(resp) < 0 THEN KeywordConfidence ELSE FirstNumeral(resp)

\* the confidence the keyword scan reads from the response
TextConfidence(resp) ==
    LET v == FirstNumeral(resp)
    IN IF v < 0 THEN KeywordConfidence
       ELSE IF v > One THEN v \div Percent
       ELSE v

\* the labels found in the lowercased response
LabelsInText(resp) == UNION {LabelsIn(resp[j]) : j \in 1..Len(resp)}

\* the label that occurs first in the response, whatever its place among
\* the categories
ExtractIntentFirstInText(resp) ==
    LET ps == {j \in 1..Len(resp) : LabelsIn(resp[j]) /= {}}
    IN IF ps = {} THEN NoResult(<<"json", "keyword">>)
       ELSE LET j == CHOOSE j \in ps : \A j2 \in ps : j <= j2
            IN Result(CHOOSE l \in LabelsIn(resp[j]) : TRUE,
                      TextConfidence(resp), <<"json", "keyword">>)

\* _extract_intent_from_text: the first label of intent_categories that
\* occurs in the lowercased response
ExtractIntentFromText(resp) ==
    LET hits == {i \in 1..Len(IntentOrder) : IntentOrder[i] \in LabelsInText(resp)}
    IN IF hits = {} THEN NoResult(<<"json", "keyword">>)
       ELSE LET i == CHOOSE i \in hits : \A i2 \in hits : i <= i2
            IN Result(IntentOrder[i], TextConfidence(resp), <<"json", "keyword">>)

\* _parse_ai_response of a text: the tiers it tried and what it found
ParseAIResponse(resp) ==
    LET m == JsonSearch(resp)
    IN IF m[1] > 0
       THEN LET js == SubSeq(resp, m[1], m[2])
            IN IF ~JsonValid(js)
               THEN NoResult(<<"json">>)
               ELSE IF Unhashable(JsonLoads(js))
               THEN NoResult(<<"json">>)
               ELSE IF ValidResult(JsonLoads(js))
               THEN Result(JsonLoads(js).intent.s,
                           ClampConfidence(JsonLoads(js).confidence.n),
                           <<"json">>)
               ELSE ExtractIntentFromText(resp)
       ELSE ExtractIntentFromText(resp)

(***************************************************************************)
(* Messages: sequences of words, blanks and exclamation marks.             *)
(***************************************************************************)
Blank == " "

IsBlank(msg) == \A i \in 1..Len(msg) : msg[i] = Blank

\* message.strip()
RECURSIVE LStrip(_)
LStrip(msg) ==
    IF msg /= <<>> /\ Head(msg) = Blank THEN LStrip(Tail(msg)) ELSE msg

RECURSIVE RStrip(_)
RStrip(msg) ==
    IF msg /= <<>> /\ msg[Len(msg)] = Blank
    THEN RStrip(SubSeq(msg, 1, Len(msg) - 1))
    ELSE msg

Strip(msg) == RStrip(LStrip(msg))

\* the test without the strip: only the empty string is empty
EmptyMessageNoStrip(msg) == msg = <<>>

\* not message or not message.strip()
EmptyMessage(msg) == msg = <<>> \/ Strip(msg) = <<>>

(***************************************************************************)
(* AIIntentClassifier.classify_intent.                                     *)
(***************************************************************************)
Classified(intent, confidence, via, tiers, called) ==
    [intent |-> intent, confidence |-> confidence, via |-> via,
     tiers |-> tiers, called |-> called, exc |-> FALSE]

\* classify_intent without its except clause: a gateway failure escapes
ClassifyIntentNoExcept(msg, tr) ==
    IF EmptyMessage(msg)
    THEN Classified("query", EmptyConfidence, "empty", <<>>, FALSE)
    ELSE IF ChatCompletion(tr).exc
    THEN [Classified("", 0, "raised", <<>>, TRUE) EXCEPT !.exc = TRUE]
    ELSE IF ChatCompletion(tr).null \/ ~ParseAIResponse(tr.text).found
    THEN Classified("query", ParseFailConfidence, "default",
                    IF ChatCompletion(tr).null THEN <<>>
                    ELSE ParseAIResponse(tr.text).tiers, TRUE)
    ELSE Classified(ParseAIResponse(tr.text).intent,
                    ParseAIResponse(tr.text).confidence,
                    ParseAIResponse(tr.text).tiers[Len(ParseAIResponse(tr.text).tiers)],
                    ParseAIResponse(tr.text).tiers, TRUE)

ClassifyIntent(msg, tr) ==
    IF EmptyMessage(msg)
    THEN Classified("query", EmptyConfidence, "empty", <<>>, FALSE)
    ELSE LET r == ChatCompletion(tr)
         IN IF r.exc
            THEN Classified("query", GatewayErrorConfidence, "error", <<>>, TRUE)
            ELSE IF r.null
            THEN Classified("query", ParseFailConfidence, "default", <<>>, TRUE)
            ELSE LET p == ParseAIResponse(r.text)
                 IN IF p.found
                    THEN Classified(p.intent, p.confidence,
                                    p.tiers[Len(p.tiers)], p.tiers, TRUE)
                    ELSE Classified("query", ParseFailConfidence, "default",
                                    p.tiers, TRUE)

(***************************************************************************)
(* IntentClassifier: the pattern tables.  A pattern \b(p1|p2|...)\b is the *)
(* set of its phrases, each the sequence of its words; a pattern           *)
(* ^[!]*word[!]*$ is marked whole.                                         *)
(***************************************************************************)
GreetingPatterns ==
    <<[whole |-> FALSE, phrases |->
        {<<"hi">>, <<"hello">>, <<"hey">>, <<"good", "morning">>,
         <<"good", "afternoon">>, <<"good", "evening">>, <<"greetings">>}],
      [whole |-> FALSE, phrases |->
          {<<"how", "are", "you">>, <<"how", "do", "you", "do">>,
           <<"what's", "up">>, <<"sup">>}],
      [whole |-> FALSE, phrases |->
          {<<"nice", "to", "meet", "you">>,
           <<"pleased", "to", "meet", "you">>}],
      [whole |-> FALSE, phrases |-> {<<"good", "day">>, <<"good", "night">>}],
      [whole |-> TRUE, phrases |-> {<<"hello">>}],
      [whole |-> TRUE, phrases |-> {<<"hi">>}],
      [whole |-> TRUE, phrases |-> {<<"hey">>}]>>

QueryPatterns ==
    <<[whole |-> FALSE, phrases |->
        {<<"what">>, <<"how">>, <<"why">>, <<"when">>, <<"where">>,
         <<"who">>, <<"which">>, <<"can", "you">>, <<"could", "you">>,
         <<"would", "you">>}],
      [whole |-> FALSE, phrases |->
          {<<"explain">>, <<"describe">>, <<"tell", "me">>, <<"show", "me">>,
           <<"help", "me">>}],
      [whole |-> FALSE, phrases |->
          {<<"how", "to">>, <<"how", "do">>, <<"how", "can">>,
           <<"how", "does">>}],
      [whole |-> FALSE, phrases |->
          {<<"what", "is">>, <<"what", "are">>, <<"what", "does">>,
           <<"what", "do">>}],
      [whole |-> FALSE, phrases |->
          {<<"why", "is">>, <<"why", "are">>, <<"why", "does">>,
           <<"why", "do">>}],
      [whole |-> FALSE, phrases |->
          {<<"when", "is">>, <<"when", "are">>, <<"when", "does">>,
           <<"when", "do">>}],
      [whole |-> FALSE, phrases |->
          {<<"where", "is">>, <<"where", "are">>, <<"where", "does">>,
           <<"where", "do">>}],
      [whole |-> FALSE, phrases |->
          {<<"who", "is">>, <<"who", "are">>, <<"who", "does">>,
           <<"who", "do">>}],
      [whole |-> FALSE, phrases |->
          {<<"which", "is">>, <<"which", "are">>, <<"which", "does">>,
           <<"which", "do">>}],
      [whole |-> FALSE, phrases |->
          {<<"can", "you">>, <<"could", "you">>, <<"would", "you">>,
           <<"will", "you">>}],
      [whole |-> FALSE, phrases |->
          {<<"please">>, <<"help">>, <<"assist">>, <<"support">>}]>>

InformationPatterns ==
    <<[whole |-> FALSE, phrases |->
        {<<"here", "is">>, <<"here", "are">>, <<"let", "me", "tell", "you">>,
         <<"i", "want", "to", "tell", "you">>}],
      [whole |-> FALSE, phrases |->
          {<<"i", "have">>, <<"i", "know">>, <<"i", "think">>,
           <<"i", "believe">>, <<"i", "feel">>}],
      [whole |-> FALSE, phrases |->
          {<<"in", "my", "opinion">>, <<"according", "to">>,
           <<"based", "on">>}],
      [whole |-> FALSE, phrases |->
          {<<"i", "want", "to", "share">>, <<"i'd", "like", "to", "share">>,
           <<"let", "me", "share">>}],
      [whole |-> FALSE, phrases |->
          {<<"this", "is">>, <<"these", "are">>, <<"that", "is">>,
           <<"those", "are">>}],
      [whole |-> FALSE, phrases |->
          {<<"i", "found">>, <<"i", "discovered">>, <<"i", "learned">>}],
      [whole |-> FALSE, phrases |->
          {<<"update">>, <<"news">>, <<"information">>, <<"data">>,
           <<"fact">>}]>>

FeedbackPatterns ==
    <<[whole |-> FALSE, phrases |->
        {<<"thank", "you">>, <<"thanks">>, <<"thx">>, <<"thank">>}],
      [whole |-> FALSE, phrases |->
          {<<"great">>, <<"awesome">>, <<"excellent">>, <<"amazing">>,
           <<"wonderful">>, <<"fantastic">>}],
      [whole |-> FALSE, phrases |->
          {<<"good">>, <<"nice">>, <<"cool">>, <<"sweet">>, <<"perfect">>,
           <<"brilliant">>}],
      [whole |-> FALSE, phrases |->
          {<<"bad">>, <<"terrible">>, <<"awful">>, <<"horrible">>,
           <<"disappointing">>}],
      [whole |-> FALSE, phrases |->
          {<<"wrong">>, <<"incorrect">>, <<"not", "right">>,
           <<"not", "correct">>}],
      [whole |-> FALSE, phrases |->
          {<<"like">>, <<"love">>, <<"enjoy">>, <<"appreciate">>}],
      [whole |-> FALSE, phrases |->
          {<<"dislike">>, <<"hate">>, <<"don't", "like">>,
           <<"not", "good">>}],
      [whole |-> FALSE, phrases |->
          {<<"helpful">>, <<"useful">>, <<"useless">>,
           <<"not", "helpful">>}],
      [whole |-> FALSE, phrases |->
          {<<"clear">>, <<"confusing">>, <<"unclear">>, <<"understand">>,
           <<"don't", "understand">>}],
      [whole |-> FALSE, phrases |->
          {<<"agree">>, <<"disagree">>, <<"correct">>, <<"incorrect">>}],
      [whole |-> FALSE, phrases |->
          {<<"rate">>, <<"rating">>, <<"score">>, <<"review">>,
           <<"feedback">>}],
      [whole |-> FALSE, phrases |->
          {<<"improve">>, <<"better">>, <<"worse">>, <<"change">>}]>>

Bang == "!"

\* str.lower() of a token
Lower(t) ==
    CASE t = "Hello" -> "hello"
      [] t = "Thanks" -> "thanks"
      [] t = "What" -> "what"
      [] OTHER -> t

LowerText(msg) == [i \in 1..Len(msg) |-> Lower(msg[i])]

\* len() of a text: the characters of its tokens
RECURSIVE CharLen(_)
CharLen(msg) == IF msg = <<>> THEN 0 ELSE Len(Head(msg)) + CharLen(Tail(msg))

\* the words of the phrase, one blank apart, start at token i
PhraseAt(msg, i, ph) ==
    /\ i + 2 * (Len(ph) - 1) <= Len(msg)
    /\ \A k \in 1..Len(ph) : msg[i + 2 * (k - 1)] = ph[k]
    /\ \A k \in 1..(Len(ph) - 1) : msg[i + 2 * k - 1] = Blank

\* the whole text is the word between exclamation marks
WholeMatch(msg, w) ==
    \E p \in 1..Len(msg) :
        /\ msg[p] = w
        /\ \A q \in 1..Len(msg) : q /= p => msg[q] = Bang

\* pattern.search(message)
PatternSearch(pattern, msg) ==
    IF pattern.whole
    THEN \E ph \in pattern.phrases : WholeMatch(msg, ph[1])
    ELSE \E ph \in pattern.phrases : \E i \in 1..Len(msg) : PhraseAt(msg, i, ph)

\* the divisor of the length factor: 1.0 - len(message) / 200
LengthScale == 200

\* the score without the length factor
CalculateScoreNoLength(msg, patterns) ==
    <<Cardinality({p \in 1..Len(patterns) : PatternSearch(patterns[p], msg)}),
      Len(patterns)>>

\* _calculate_score, as the fraction <<numerator, denominator>>:
\* min(1.0, (matches / total) * max(0.5, 1.0 - len / 200))
CalculateScore(msg, patterns) ==
    LET matches == Cardinality({p \in 1..Len(patterns) : PatternSearch(patterns[p], msg)})
        total == Len(patterns)
        factor == Max(LengthScale \div 2, LengthScale - CharLen(msg))
        num == matches * factor
        den == total * LengthScale
    IN IF num > den THEN <<1, 1>> ELSE <<num, den>>

\* a < b for fractions with positive denominators
FracLess(a, b) == a[1] * b[2] < b[1] * a[2]

\* the fixed-point value of a fraction
FracFixed(a) == (a[1] * One) \div a[2]

\* the scores dict of classify_intent, in insertion order
PatternScores(msg) ==
    [i \in 1..Len(IntentOrder) |->
        CalculateScore(msg, CASE i = 1 -> GreetingPatterns
                              [] i = 2 -> QueryPatterns
                              [] i = 3 -> InformationPatterns
                              [] OTHER -> FeedbackPatterns)]

NoScores == [i \in 1..Len(IntentOrder) |-> <<0, 1>>]

\* the last key with the greatest score
MaxIntentLast(sc) ==
    CHOOSE i \in 1..Len(IntentOrder) :
        /\ \A j \in 1..Len(IntentOrder) : ~FracLess(sc[i], sc[j])
        /\ \A j \in (i + 1)..Len(IntentOrder) : FracLess(sc[j], sc[i])

\* max(scores, key=scores.get): the first key with the greatest score
MaxIntent(sc) ==
    CHOOSE i \in 1..Len(IntentOrder) :
        /\ \A j \in 1..Len(IntentOrder) : ~FracLess(sc[i], sc[j])
        /\ \A j \in 1..(i - 1) : FracLess(sc[j], sc[i])

\* the confidence of the empty-message default of IntentClassifier
PatternEmptyConfidence == 0
\* the threshold, and the confidence of the default, of IntentClassifier: 0.1
MinConfidence == 1000

PatternResult(intent, confidence, via, sc) ==
    [intent |-> intent, confidence |-> confidence, via |-> via, scores |-> sc]

\* IntentClassifier.classify_intent
PatternClassifyIntent(message0) ==
    IF EmptyMessage(message0)
    THEN PatternResult("query", PatternEmptyConfidence, "empty", NoScores)
    ELSE LET msg == LowerText(Strip(message0))
             sc == PatternScores(msg)
             best == MaxIntent(sc)
         IN IF FracLess(sc[best], <<MinConfidence, One>>)
            THEN PatternResult("query", MinConfidence, "threshold", sc)
            ELSE PatternResult(IntentOrder[best], FracFixed(sc[best]), "score", sc)

(***************************************************************************)
(* Character texts: replies, generated questions.                          *)
(***************************************************************************)
Newline == "\n"
Quote == "\""
Whitespace == {" ", "\n"}

HasChar(text, c) == \E i \in 1..Len(text) : text[i] = c

RECURSIVE LStripChars(_, _)
LStripChars(text, S) ==
    IF text /= <<>> /\ Head(text) \in S THEN LStripChars(Tail(text), S) ELSE text

RECURSIVE RStripChars(_, _)
RStripChars(text, S) ==
    IF text /= <<>> /\ text[Len(text)] \in S
    THEN RStripChars(SubSeq(text, 1, Len(text) - 1), S)
    ELSE text

\* str.strip(chars)
StripChars(text, S) == RStripChars(LStripChars(text, S), S)

\* str.split(sep)
RECURSIVE SplitOn(_, _)
SplitOn(text, sep) ==
    IF ~HasChar(text, sep) THEN <<text>>
    ELSE LET i == CHOOSE i \in 1..Len(text) :
                      text[i] = sep /\ \A j \in 1..(i - 1) : text[j] /= sep
         IN <<SubSeq(text, 1, i - 1)>> \o SplitOn(SubSeq(text, i + 1, Len(text)), sep)

(***************************************************************************)
(* ChainQueryGenerator: the fixed fallback questions.                      *)
(***************************************************************************)
\* "Would you like to know more about this?"
QueryFallback1 ==
    <<"W", "o", "u", "l", "d", " ", "y", "o", "u", " ", "l", "i", "k", "e",
      " ", "t", "o", " ", "k", "n", "o", "w", " ", "m", "o", "r", "e", " ",
      "a", "b", "o", "u", "t", " ", "t", "h", "i", "s", "?">>

\* "Do you want me to explain this in more detail?"
QueryFallback2 ==
    <<"D", "o", " ", "y", "o", "u", " ", "w", "a", "n", "t", " ", "m", "e",
      " ", "t", "o", " ", "e", "x", "p", "l", "a", "i", "n", " ", "t", "h",
      "i", "s", " ", "i", "n", " ", "m", "o", "r", "e", " ", "d", "e", "t",
      "a", "i", "l", "?">>

\* "Should I tell you more about this topic?"
QueryFallback3 ==
    <<"S", "h", "o", "u", "l", "d", " ", "I", " ", "t", "e", "l", "l", " ",
      "y", "o", "u", " ", "m", "o", "r", "e", " ", "a", "b", "o", "u", "t",
      " ", "t", "h", "i", "s", " ", "t", "o", "p", "i", "c", "?">>

\* "Would you like to explore this further?"
InformationFallback1 ==
    <<"W", "o", "u", "l", "d", " ", "y", "o", "u", " ", "l", "i", "k", "e",
      " ", "t", "o", " ", "e", "x", "p", "l", "o", "r", "e", " ", "t", "h",
      "i", "s", " ", "f", "u", "r", "t", "h", "e", "r", "?">>

\* "Do you want to know more about this?"
InformationFallback2 ==
    <<"D", "o", " ", "y", "o", "u", " ", "w", "a", "n", "t", " ", "t", "o",
      " ", "k", "n", "o", "w", " ", "m", "o", "r", "e", " ", "a", "b", "o",
      "u", "t", " ", "t", "h", "i", "s", "?">>

\* "Should I dive deeper into this topic?"
InformationFallback3 ==
    <<"S", "h", "o", "u", "l", "d", " ", "I", " ", "d", "i", "v", "e", " ",
      "d", "e", "e", "p", "e", "r", " ", "i", "n", "t", "o", " ", "t", "h",
      "i", "s", " ", "t", "o", "p", "i", "c", "?">>

\* "Would you like to know more about this?"
GenericFallback1 ==
    <<"W", "o", "u", "l", "d", " ", "y", "o", "u", " ", "l", "i", "k", "e",
      " ", "t", "o", " ", "k", "n", "o", "w", " ", "m", "o", "r", "e", " ",
      "a", "b", "o", "u", "t", " ", "t", "h", "i", "s", "?">>

\* "Do you want to explore this further?"
GenericFallback2 ==
    <<"D", "o", " ", "y", "o", "u", " ", "w", "a", "n", "t", " ", "t", "o",
      " ", "e", "x", "p", "l", "o", "r", "e", " ", "t", "h", "i", "s", " ",
      "f", "u", "r", "t", "h", "e", "r", "?">>

\* "Should I tell you more about this?"
GenericFallback3 ==
    <<"S", "h", "o", "u", "l", "d", " ", "I", " ", "t", "e", "l", "l", " ",
      "y", "o", "u", " ", "m", "o", "r", "e", " ", "a", "b", "o", "u", "t",
      " ", "t", "h", "i", "s", "?">>

\* _get_fallback_questions
GetFallbackQuestions(key) ==
    IF key = "query"
    THEN <<QueryFallback1, QueryFallback2, QueryFallback3>>
    ELSE IF key = "information"
    THEN <<InformationFallback1, InformationFallback2, InformationFallback3>>
    ELSE <<GenericFallback1, GenericFallback2, GenericFallback3>>

(***************************************************************************)
(* ChainQueryGenerator: the analysis of the reply.  The gateway's answer   *)
(* is a sequence of lines; a line has a key before its first colon, a      *)
(* value after it (its comma-separated parts; one part except for Topics)  *)
(* and may start with a blank.                                             *)
(***************************************************************************)
AnalysisLine(indent, key, value) ==
    [indent |-> indent, key |-> key, value |-> value]

\* str.strip() of a value
Trim(t) ==
    CASE t = " General " -> "General"
      [] t = " model checking" -> "model checking"
      [] OTHER -> t

\* str.lower() of a value
LowerValue(t) ==
    CASE t = "General" -> "general"
      [] t = "Technical" -> "technical"
      [] t = "Simple" -> "simple"
      [] t = "Partial" -> "partial"
      [] OTHER -> t

DefaultAnalysis ==
    [type |-> "general",
     topics |-> <<"general information">>,
     complexity |-> "moderate",
     completeness |-> "complete",
     exploration |-> "general aspects"]

\* line.startswith(key + ':'), the response stripped as a whole before it
\* is split: the first line never starts with a blank
StartsWith(lines, i, key) ==
    lines[i].key = key /\ (i = 1 \/ ~lines[i].indent)

\* the loop of _parse_analysis from line i on
RECURSIVE ParseAnalysisFrom(_, _, _)
ParseAnalysisFrom(lines, i, analysis) ==
    IF i > Len(lines) THEN analysis
    ELSE LET v == lines[i].value
             next ==
                 IF StartsWith(lines, i, "Type")
                 THEN [analysis EXCEPT !.type = LowerValue(Trim(v[1]))]
                 ELSE IF StartsWith(lines, i, "Topics")
                 THEN [analysis EXCEPT !.topics = [k \in 1..Len(v) |-> Trim(v[k])]]
                 ELSE IF StartsWith(lines, i, "Complexity")
                 THEN [analysis EXCEPT !.complexity = LowerValue(Trim(v[1]))]
                 ELSE IF StartsWith(lines, i, "Completeness")
                 THEN [analysis EXCEPT !.completeness = LowerValue(Trim(v[1]))]
                 ELSE IF StartsWith(lines, i, "Exploration")
                 THEN [analysis EXCEPT !.exploration = Trim(v[1])]
                 ELSE analysis
         IN ParseAnalysisFrom(lines, i + 1, next)

\* _parse_analysis
ParseAnalysis(lines) == ParseAnalysisFrom(lines, 1, DefaultAnalysis)

\* the value of a call that returned, or the exception that left it
Ok(v) == [exc |-> FALSE, val |-> v]
Exc(v) == [exc |-> TRUE, val |-> v]

\* the failure of the gateway call left uncaught
AnalyzeResponseNoExcept(aiResponse, intent0, tr) ==
    LET r == ChatCompletion(tr)
    IN IF r.exc \/ r.null THEN Exc(DefaultAnalysis) ELSE Ok(ParseAnalysis(r.text))

\* _analyze_response: a gateway failure, or a response that is no text,
\* is caught and gives the default analysis
AnalyzeResponse(aiResponse, intent0, tr) ==
    LET r == ChatCompletion(tr)
    IN IF r.exc \/ r.null THEN Ok(DefaultAnalysis) ELSE Ok(ParseAnalysis(r.text))

(***************************************************************************)
(* ChainQueryGenerator: the questions.                                     *)
(***************************************************************************)
\* the characters question.strip removes, of those the texts are made of
MarkerChars ==
    {"-", "*", "1", "2", "3", "4", "5", "6", "7", "8", "9", ".", " "}

\* a question must be longer than this
MinQuestionLen == 10

\* at most this many questions are returned
MaxQuestions == 3

\* the first loop of _parse_questions
RECURSIVE LineQuestions(_)
LineQuestions(lines) ==
    IF lines = <<>> THEN <<>>
    ELSE LET line == StripChars(Head(lines), Whitespace)
             question == StripChars(line, MarkerChars)
         IN IF /\ line /= <<>>
               /\ HasChar(line, "?")
               /\ question /= <<>>
               /\ Len(question) > MinQuestionLen
            THEN <<question>> \o LineQuestions(Tail(lines))
            ELSE LineQuestions(Tail(lines))

\* the second loop of _parse_questions
RECURSIVE SentenceQuestions(_)
SentenceQuestions(sentences) ==
    IF sentences = <<>> THEN <<>>
    ELSE LET question == StripChars(Head(sentences), Whitespace)
         IN IF HasChar(Head(sentences), "?") /\ Len(question) > MinQuestionLen
            THEN <<question>> \o SentenceQuestions(Tail(sentences))
            ELSE SentenceQuestions(Tail(sentences))

\* the last questions returned instead of the first
ParseQuestionsLast(response) ==
    LET byLine == LineQuestions(SplitOn(StripChars(response, Whitespace), Newline))
        questions == IF byLine = <<>>
                     THEN SentenceQuestions(SplitOn(response, "."))
                     ELSE byLine
    IN SubSeq(questions, Max(1, Len(questions) - MaxQuestions + 1), Len(questions))

\* _parse_questions
ParseQuestions(response) ==
    LET byLine == LineQuestions(SplitOn(StripChars(response, Whitespace), Newline))
        questions == IF byLine = <<>>
                     THEN SentenceQuestions(SplitOn(response, "."))
                     ELSE byLine
    IN SubSeq(questions, 1, Min(Len(questions), MaxQuestions))

\* _generate_questions: a gateway failure, or a response that is no text,
\* is caught and gives the fallback questions of the response type
GenerateQuestions(userMessage, aiResponse, analysis, tr) ==
    LET responseType == analysis.type
        r == ChatCompletion(tr)
    IN IF r.exc \/ r.null
       THEN Ok(GetFallbackQuestions(responseType))
       ELSE Ok(ParseQuestions(r.text))

FollowUps(exc, questions, analysis, stages) ==
    [exc |-> exc, val |-> questions, analysis |-> analysis, stages |-> stages]

\* the question call skipped when the analysis call has failed
GenerateFollowUpQuestionsAnalysisFirst(userMessage, aiResponse, intent0, trA, trG) ==
    LET a == AnalyzeResponse(aiResponse, intent0, trA)
        g == GenerateQuestions(userMessage, aiResponse, a.val, trG)
    IN IF ChatCompletion(trA).exc
       THEN FollowUps(FALSE, GetFallbackQuestions(intent0), a.val, <<"analyze">>)
       ELSE FollowUps(FALSE, g.val, a.val, <<"analyze", "generate">>)

\* generate_follow_up_questions
GenerateFollowUpQuestions(userMessage, aiResponse, intent0, trA, trG) ==
    LET a == AnalyzeResponse(aiResponse, intent0, trA)
    IN IF a.exc
       THEN FollowUps(FALSE, GetFallbackQuestions(intent0), a.val, <<"analyze">>)
       ELSE LET g == GenerateQuestions(userMessage, aiResponse, a.val, trG)
            IN IF g.exc
               THEN FollowUps(FALSE, GetFallbackQuestions(intent0), a.val,
                              <<"analyze", "generate">>)
               ELSE FollowUps(FALSE, g.val, a.val, <<"analyze", "generate">>)

\* the question put before the reply
AppendBestQuestionFirst(userMessage, aiResponse, intent0, trA, trG) ==
    LET f == GenerateFollowUpQuestions(userMessage, aiResponse, intent0, trA, trG)
        out == [exc |-> FALSE, val |-> aiResponse, followUps |-> f.val,
                analysis |-> f.analysis, stages |-> f.stages]
    IN IF f.exc THEN out
       ELSE IF f.val = <<>> THEN out
       ELSE [out EXCEPT !.val = StripChars(f.val[1], {Quote})
                                    \o <<Newline, Newline>> \o aiResponse]

\* the last candidate appended instead of the first
AppendBestLastCandidate(userMessage, aiResponse, intent0, trA, trG) ==
    LET f == GenerateFollowUpQuestions(userMessage, aiResponse, intent0, trA, trG)
        out == [exc |-> FALSE, val |-> aiResponse, followUps |-> f.val,
                analysis |-> f.analysis, stages |-> f.stages]
    IN IF f.exc THEN out
       ELSE IF f.val = <<>> THEN out
       ELSE [out EXCEPT !.val = aiResponse \o <<Newline, Newline>>
                                    \o StripChars(f.val[Len(f.val)], {Quote})]

\* append_best_follow_up_to_response; followUps keeps the candidates
AppendBestFollowUpToResponse(userMessage, aiResponse, intent0, trA, trG) ==
    LET f == GenerateFollowUpQuestions(userMessage, aiResponse, intent0, trA, trG)
        out == [exc |-> FALSE, val |-> aiResponse, followUps |-> f.val,
                analysis |-> f.analysis, stages |-> f.stages]
    IN IF f.exc THEN out
       ELSE IF f.val = <<>> THEN out
       ELSE [out EXCEPT !.val = aiResponse \o <<Newline, Newline>>
                                    \o StripChars(f.val[1], {Quote})]

(***************************************************************************)
(* ChainQueryGenerator: the gating policy, and the enhancement of a reply  *)
(* by chat_endpoint.                                                       *)
(***************************************************************************)
\* a reply shorter than this gets no follow-up
FollowUpMinLength == 50

\* the intents that get a follow-up
FollowUpIntentList == <<"query", "information", "feedback">>

\* the policy with the length bar off by one
ShouldGenerateFollowUpAbove(intent0, responseLength) ==
    IF intent0 = "greetings" \/ responseLength <= FollowUpMinLength
    THEN FALSE
    ELSE \E k \in 1..Len(FollowUpIntentList) : FollowUpIntentList[k] = intent0

\* the policy without the length bar
ShouldGenerateFollowUpAnyLength(intent0, responseLength) ==
    \E k \in 1..Len(FollowUpIntentList) : FollowUpIntentList[k] = intent0

\* should_generate_follow_up
ShouldGenerateFollowUp(intent0, responseLength) ==
    IF intent0 = "greetings" \/ responseLength < FollowUpMinLength
    THEN FALSE
    ELSE \E k \in 1..Len(FollowUpIntentList) : FollowUpIntentList[k] = intent0

\* the outcome of the enhancement: the try around the appending keeps the
\* reply when the appending raises
Enhanced(a, response) ==
    [exc |-> FALSE, val |-> IF a.exc THEN response ELSE a.val,
     followUps |-> a.followUps, analysis |-> a.analysis,
     stages |-> a.stages, gated |-> TRUE]

\* the outcome when the policy allows no follow-up
NotEnhanced(response) ==
    [exc |-> FALSE, val |-> response, followUps |-> <<>>,
     analysis |-> DefaultAnalysis, stages |-> <<>>, gated |-> FALSE]

\* chat_endpoint, "Enhance response with follow-up question": the reply is
\* enhanced when the policy allows it, and kept when the enhancement raises
EnhanceResponse(userMessage, response, intent0, trA, trG) ==
    IF ShouldGenerateFollowUp(intent0, Len(response))
    THEN Enhanced(AppendBestFollowUpToResponse(userMessage, response, intent0,
                                               trA, trG), response)
    ELSE NotEnhanced(response)

(***************************************************************************)
(* State.                                                                  *)
(***************************************************************************)
VARIABLES
    pc,          \* the position of the request
    message,     \* the user's message
    gateway,     \* what the transport does with the classification call
    calls,       \* the gateway calls made, in order, by stage
    intent,      \* the classified intent
    confidence,  \* its confidence, fixed-point
    via,         \* the branch of classify_intent that returned
    tiers,       \* the extraction tiers _parse_ai_response tried, in order
    raised,      \* an exception left the operation
    scores,      \* the pattern scores of IntentClassifier
    reply,       \* the assistant's reply
    analyzerGw,  \* what the transport does with the analysis call
    generatorGw, \* what the transport does with the question call
    analysis,    \* the analysis of the reply
    followUps,   \* the follow-up questions generated
    enhanced,    \* the reply after append_best_follow_up_to_response
    followUp,    \* the decision of should_generate_follow_up
    turn,        \* the chat requests in progress, by request
    config,      \* the tables of the classifier and the generator
    complexity,  \* the result of analyze_message_complexity
    keywords,    \* the result of extract_keywords
    store        \* the session files under logs/sessions, by session id

vars == <<pc, message, gateway, calls, intent, confidence, via, tiers, raised,
          scores, reply, analyzerGw, generatorGw, analysis, followUps,
          enhanced, followUp, turn, config, complexity, keywords, store>>

followUpVars == <<reply, analyzerGw, generatorGw, analysis, followUps, enhanced,
                  followUp>>

textVars == <<complexity, keywords>>

pipelineVars == <<turn, config, textVars, store>>

\* the tables set by the constructors of the classifier and the generator
Configuration ==
    [intentCategories |-> IntentOrder,
     fallbackQuestions |-> [k \in {"query", "information", "other"} |->
                               GetFallbackQuestions(k)]]

\* no chat request in progress
NoTurns == <<>>

\* no session file written
NoSessions == <<>>

\* no text analysed, no session stored
TextsIdle ==
    /\ complexity = ""
    /\ keywords = <<>>
    /\ store = NoSessions

\* the transport of a call that is never made
NotCalled == Transport("not_called", NoText)

\* no analysis made yet
NoAnalysis == [DefaultAnalysis EXCEPT !.type = "", !.topics = <<>>]

\* no classification made
ClassifierIdle ==
    /\ gateway = NotCalled
    /\ calls = <<>>
    /\ confidence = 0
    /\ via = ""
    /\ tiers = <<>>
    /\ raised = FALSE
    /\ scores = NoScores

\* no follow-up made
FollowUpIdle ==
    /\ analysis = NoAnalysis
    /\ followUps = <<>>
    /\ enhanced = <<>>
    /\ followUp = FALSE

\* no chat request made
PipelineIdle ==
    /\ turn = NoTurns
    /\ config = Configuration
    /\ TextsIdle

\* the sequences over S of length at most n
SeqsUpTo(S, n) == UNION {[1..k -> S] : k \in 0..n}

\* the texts the gateway may answer a classification with
ClassifyTexts == SeqsUpTo(RespTokens, MaxRespLen)

\* what the transport may do with a call, given the texts it may return
Transports(texts) ==
    {Transport(k, NoText) : k \in TransportFailures \cup {"content_null"}}
        \cup {Transport("content_text", t) : t \in texts}

\* the state of a request before its classification
Start ==
    /\ pc = "start"
    /\ calls = <<>>
    /\ intent = ""
    /\ confidence = 0
    /\ via = ""
    /\ tiers = <<>>
    /\ raised = FALSE
    /\ scores = NoScores
    /\ reply = <<>>
    /\ analyzerGw = NotCalled
    /\ generatorGw = NotCalled
    /\ analysis = NoAnalysis
    /\ followUps = <<>>
    /\ enhanced = <<>>
    /\ followUp = FALSE
    /\ turn = NoTurns
    /\ config = Configuration
    /\ TextsIdle

\* AIIntentClassifier.classify_intent(message)
AIClassify ==
    /\ pc = "start"
    /\ LET c == ClassifyIntent(message, gateway)
       IN /\ intent' = c.intent
          /\ confidence' = c.confidence
          /\ via' = c.via
          /\ tiers' = c.tiers
          /\ raised' = c.exc
          /\ calls' = IF c.called THEN Append(calls, "classify") ELSE calls
    /\ pc' = "classified"
    /\ UNCHANGED <<message, gateway, scores, followUpVars, pipelineVars>>

\* IntentClassifier.classify_intent(message)
PatternClassify ==
    /\ pc = "start"
    /\ LET c == PatternClassifyIntent(message)
       IN /\ intent' = c.intent
          /\ confidence' = c.confidence
          /\ via' = c.via
          /\ scores' = c.scores
    /\ pc' = "pattern_classified"
    /\ UNCHANGED <<message, gateway, calls, tiers, raised, followUpVars,
                   pipelineVars>>

(***************************************************************************)
(* Classification by the gateway, over the responses it may give.          *)
(***************************************************************************)
\* the messages of the classification runs
ClassifyMessages == {<<>>, <<Blank, Blank>>, <<Blank, "Thanks", Bang>>}

InitClassify ==
    /\ Start
    /\ message \in ClassifyMessages
    /\ gateway \in IF EmptyMessage(message)
                   THEN Transports({<<>>})
                   ELSE Transports(ClassifyTexts)

NextClassify == AIClassify

SpecClassify == InitClassify /\ [][NextClassify]_vars

(***************************************************************************)
(* The two classification strategies, over the messages.                   *)
(***************************************************************************)
\* longest message, in tokens
MaxMsgLen == 4

MsgTokens == {Blank, Bang, "Hello", "Thanks", "what", "is"}

IsWord(t) == t \notin {Blank, Bang}

\* two words are never adjacent: a blank or a mark separates them
WellFormed(msg) ==
    \A i \in 1..(Len(msg) - 1) : ~(IsWord(msg[i]) /\ IsWord(msg[i + 1]))

Messages == {m \in SeqsUpTo(MsgTokens, MaxMsgLen) : WellFormed(m)}

\* what the transport does in these runs
StrategyTransports ==
    {Transport("timeout", NoText),
     Transport("content_text", <<LBrace, MIntentQuery, MConfHigh, RBrace>>),
     Transport("content_text", <<WFeedback>>)}

InitStrategies ==
    /\ Start
    /\ message \in Messages
    /\ gateway \in StrategyTransports

NextStrategies ==
    \/ AIClassify
    \/ PatternClassify

SpecStrategies == InitStrategies /\ [][NextStrategies]_vars

(***************************************************************************)
(* The follow-up questions of a reply (SpecFollowUp).                      *)
(***************************************************************************)
\* the lines the gateway may answer the question call with
\* a question: Which one is it?
QPlain ==
    <<"W", "h", "i", "c", "h", " ", "o", "n", "e", " ", "i", "s", " ", "i",
      "t", "?">>

\* a numbered question: 1. Why is that so?
QNumbered ==
    <<"1", ".", " ", "W", "h", "y", " ", "i", "s", " ", "t", "h", "a", "t",
      " ", "s", "o", "?">>

\* a quoted question: 'How does it work?'
QQuoted ==
    <<Quote, "H", "o", "w", " ", "d", "o", "e", "s", " ", "i", "t", " ",
      "w", "o", "r", "k", "?", Quote>>

\* a question too short: Why so?
QShort ==
    <<"W", "h", "y", " ", "s", "o", "?">>

\* a question too short once its markers are removed: - - Why not?
QMarked ==
    <<"-", " ", "-", " ", "W", "h", "y", " ", "n", "o", "t", "?">>

\* no question: Here you go.
Statement ==
    <<"H", "e", "r", "e", " ", "y", "o", "u", " ", "g", "o", ".">>

QuestionLines == {QPlain, QNumbered, QQuoted, QShort, QMarked, Statement}

\* the number of lines of an answer to the question call
MaxQuestionLines == 3

\* "\n".join(lines)
RECURSIVE JoinLines(_)
JoinLines(lines) ==
    IF lines = <<>> THEN <<>>
    ELSE IF Len(lines) = 1 THEN lines[1]
    ELSE lines[1] \o <<Newline>> \o JoinLines(Tail(lines))

QuestionTexts == {JoinLines(ls) : ls \in SeqsUpTo(QuestionLines, MaxQuestionLines)}

\* the answers to the analysis call
AnalysisTexts ==
    {<<AnalysisLine(FALSE, "Type", <<"query">>)>>,
     <<AnalysisLine(TRUE, "Type", <<" General ">>),
       AnalysisLine(FALSE, "Topics", <<"tla", " model checking">>)>>,
     <<AnalysisLine(FALSE, "Note", <<"none">>),
       AnalysisLine(TRUE, "Type", <<"Technical">>)>>}

AnalyzerTransports ==
    {Transport("timeout", NoText), Transport("content_null", NoText)}
        \cup {Transport("content_text", t) : t \in AnalysisTexts}

\* a reply: Ok.
ReplyShort ==
    <<"O", "k", ".">>

\* a reply that ends a line: It is.\n
ReplyLines ==
    <<"I", "t", " ", "i", "s", ".", Newline>>

\* a reply of the length at which the gating policy lets a follow-up through
ReplyLong == [k \in 1..FollowUpMinLength |-> IF k = FollowUpMinLength THEN "." ELSE "a"]

Replies == {ReplyShort, ReplyLines, ReplyLong}

FollowUpIntents == {"query", "information", "feedback"}

\* generate_follow_up_questions(user_message, ai_response, intent)
GenerateFollowUps ==
    /\ pc = "replied"
    /\ LET f == GenerateFollowUpQuestions(message, reply, intent,
                                          analyzerGw, generatorGw)
       IN /\ followUps' = f.val
          /\ analysis' = f.analysis
          /\ calls' = calls \o f.stages
          /\ raised' = f.exc
    /\ pc' = "generated"
    /\ UNCHANGED <<message, gateway, intent, confidence, via, tiers, scores,
                   reply, analyzerGw, generatorGw, enhanced, followUp,
                   pipelineVars>>

\* append_best_follow_up_to_response(user_message, ai_response, intent)
AppendBestFollowUp ==
    /\ pc = "replied"
    /\ LET a == AppendBestFollowUpToResponse(message, reply, intent,
                                             analyzerGw, generatorGw)
       IN /\ enhanced' = a.val
          /\ followUps' = a.followUps
          /\ analysis' = a.analysis
          /\ calls' = calls \o a.stages
          /\ raised' = a.exc
    /\ pc' = "appended"
    /\ UNCHANGED <<message, gateway, intent, confidence, via, tiers, scores,
                   reply, analyzerGw, generatorGw, followUp, pipelineVars>>

\* chat_endpoint: the reply enhanced under the gating policy; the try
\* around the appending keeps the reply when the appending raises
EnhanceReply ==
    /\ pc = "replied"
    /\ IF ShouldGenerateFollowUp(intent, Len(reply))
       THEN LET a == AppendBestFollowUpToResponse(message, reply, intent,
                                                  analyzerGw, generatorGw)
            IN /\ enhanced' = IF a.exc THEN reply ELSE a.val
               /\ followUps' = a.followUps
               /\ analysis' = a.analysis
               /\ calls' = calls \o a.stages
               /\ followUp' = TRUE
       ELSE /\ enhanced' = reply
            /\ followUp' = FALSE
            /\ UNCHANGED <<followUps, analysis, calls>>
    /\ raised' = FALSE
    /\ pc' = "enhanced"
    /\ UNCHANGED <<message, gateway, intent, confidence, via, tiers, scores,
                   reply, analyzerGw, generatorGw, pipelineVars>>

InitFollowUp ==
    /\ pc = "replied"
    /\ message = <<"what", Blank, "is">>
    /\ gateway = NotCalled
    /\ calls = <<>>
    /\ intent \in FollowUpIntents
    /\ confidence = KeywordConfidence
    /\ via = "keyword"
    /\ tiers = <<>>
    /\ raised = FALSE
    /\ scores = NoScores
    /\ reply \in Replies
    /\ analyzerGw \in AnalyzerTransports
    /\ generatorGw \in Transports(QuestionTexts)
    /\ analysis = NoAnalysis
    /\ followUps = <<>>
    /\ enhanced = <<>>
    /\ followUp = FALSE
    /\ turn = NoTurns
    /\ config = Configuration
    /\ TextsIdle

NextFollowUp ==
    \/ GenerateFollowUps
    \/ AppendBestFollowUp
    \/ EnhanceReply

SpecFollowUp == InitFollowUp /\ [][NextFollowUp]_vars

(***************************************************************************)
(* The questions parsed from the generator's answer (SpecQuestions).       *)
(***************************************************************************)
\* a question numbered with a zero: 10. Why is that so?
QTenth ==
    <<"1", "0", ".", " ", "W", "h", "y", " ", "i", "s", " ", "t", "h", "a",
      "t", " ", "s", "o", "?">>

\* another question: Can I see it?
QOther ==
    <<"C", "a", "n", " ", "I", " ", "s", "e", "e", " ", "i", "t", "?">>

ParsedLines == {QPlain, QOther, QNumbered, QQuoted, QShort, QMarked, QTenth}

\* the number of lines of an answer whose questions are parsed
MaxParsedLines == 4

ParsedTexts == {JoinLines(ls) : ls \in SeqsUpTo(ParsedLines, MaxParsedLines)}

\* the answers to the analysis call that select each fallback list
QuestionAnalyzers ==
    {Transport("timeout", NoText),
     Transport("content_text", <<AnalysisLine(FALSE, "Type", <<"query">>)>>),
     Transport("content_text", <<AnalysisLine(FALSE, "Type", <<"information">>)>>)}

InitQuestions ==
    /\ pc = "replied"
    /\ message = <<"what", Blank, "is">>
    /\ ClassifierIdle
    /\ FollowUpIdle
    /\ PipelineIdle
    /\ intent = "feedback"
    /\ reply = ReplyShort
    /\ analyzerGw \in QuestionAnalyzers
    /\ generatorGw \in Transports(ParsedTexts)

NextQuestions == GenerateFollowUps

SpecQuestions == InitQuestions /\ [][NextQuestions]_vars

(***************************************************************************)
(* The analysis of a reply (SpecAnalyze).                                  *)
(***************************************************************************)
\* the lines the gateway may answer the analysis call with
AnalysisLines ==
    {AnalysisLine(FALSE, "Type", <<"Technical">>),
     AnalysisLine(FALSE, "Type", <<" General ">>),
     AnalysisLine(TRUE, "Type", <<"query">>),
     AnalysisLine(FALSE, "type", <<"query">>),
     AnalysisLine(FALSE, "Topics", <<"tla", " model checking", "proofs", "tools">>),
     AnalysisLine(FALSE, "Complexity", <<"Simple">>),
     AnalysisLine(FALSE, "Complexity", <<"extreme">>),
     AnalysisLine(FALSE, "Completeness", <<"Partial">>),
     AnalysisLine(FALSE, "Exploration", <<"proofs">>),
     AnalysisLine(FALSE, "Note", <<"none">>)}

\* the number of lines of an answer to the analysis call
MaxAnalysisLines == 3

\* _analyze_response(ai_response, intent)
Analyze ==
    /\ pc = "replied"
    /\ LET a == AnalyzeResponse(reply, intent, analyzerGw)
       IN /\ analysis' = a.val
          /\ raised' = a.exc
    /\ calls' = Append(calls, "analyze")
    /\ pc' = "analyzed"
    /\ UNCHANGED <<message, gateway, intent, confidence, via, tiers, scores,
                   reply, analyzerGw, generatorGw, followUps, enhanced,
                   followUp, pipelineVars>>

InitAnalyze ==
    /\ pc = "replied"
    /\ message = <<"what", Blank, "is">>
    /\ ClassifierIdle
    /\ FollowUpIdle
    /\ PipelineIdle
    /\ intent = "query"
    /\ reply = ReplyShort
    /\ analyzerGw \in Transports(SeqsUpTo(AnalysisLines, MaxAnalysisLines))
    /\ generatorGw = NotCalled

NextAnalyze == Analyze

SpecAnalyze == InitAnalyze /\ [][NextAnalyze]_vars

(***************************************************************************)
(* The gating policy as a function of the intent and the reply's length    *)
(* (SpecGating).                                                           *)
(***************************************************************************)
\* the longest reply the policy is asked about
MaxReplyLen == 51

\* a reply of n characters
ReplyOfLength(n) == [k \in 1..n |-> "a"]

\* the intents the policy is asked about: the four labels and others
GatingIntents == Intents \cup {"chitchat", "greeting", ""}

\* should_generate_follow_up(intent, len(response))
ShouldFollowUp ==
    /\ pc = "replied"
    /\ followUp' = ShouldGenerateFollowUp(intent, Len(reply))
    /\ pc' = "gated"
    /\ UNCHANGED <<message, gateway, calls, intent, confidence, via, tiers,
                   raised, scores, reply, analyzerGw, generatorGw, analysis,
                   followUps, enhanced, pipelineVars>>

InitGating ==
    /\ pc = "replied"
    /\ message = <<>>
    /\ ClassifierIdle
    /\ FollowUpIdle
    /\ PipelineIdle
    /\ analyzerGw = NotCalled
    /\ generatorGw = NotCalled
    /\ intent \in GatingIntents
    /\ reply \in {ReplyOfLength(n) : n \in 0..MaxReplyLen}

NextGating == ShouldFollowUp

SpecGating == InitGating /\ [][NextGating]_vars

(***************************************************************************)
(* Chat requests served concurrently (Spec).  A request is a coroutine of  *)
(* chat_endpoint; it is suspended at each gateway call and resumed with    *)
(* the outcome of that call, and requests interleave at these points.      *)
(***************************************************************************)
Requests == {"r1", "r2"}

\* a message of a session
ChatMessage(role, content) == [role |-> role, content |-> content]

\* the outcome of a gateway call of another request
AwaitedOfOther(t, i, stage) ==
    LET j == CHOOSE j \in DOMAIN t : j /= i
    IN t[j].gw[stage]

\* the outcome of the gateway call request i awaits: a local of its coroutine
Awaited(t, i, stage) == t[i].gw[stage]

\* the messages a request may carry, with the outcomes of its gateway calls
\* and of the write of its session file
TurnInputs ==
    [message : {<<>>, <<Blank>>, <<"what", Blank, "is">>},
     gw : [classify : {Transport("timeout", NoText),
                       Transport("content_text", <<WGreetings>>)},
           primary : {Transport("status_error", NoText),
                      Transport("content_text", ReplyShort),
                      Transport("content_text", ReplyLong)},
           analyze : {Transport("timeout", NoText),
                      Transport("content_text",
                                <<AnalysisLine(FALSE, "Type", <<"query">>)>>)},
           generate : {Transport("timeout", NoText),
                       Transport("content_text",
                                 JoinLines(<<QQuoted, QPlain>>))}],
     disk : {"ok", "write_error"}]

\* a request as chat_endpoint receives it
NewTurn(in) ==
    [pc |-> "start", message |-> in.message, gw |-> in.gw, disk |-> in.disk,
     intent |-> "", confidence |-> 0, response |-> <<>>, history |-> <<>>,
     gated |-> "undecided", analysis |-> NoAnalysis, followUps |-> <<>>,
     delivered |-> <<>>, stored |-> <<>>, status |-> 0, trace |-> <<>>]

\* the session stored with the enhanced reply as its last message
FinishStoringDelivered(r, text) ==
    IF r.disk = "ok"
    THEN [r EXCEPT !.pc = "done",
                   !.stored = [r.history EXCEPT ![Len(r.history)].content = text],
                   !.delivered = text, !.status = 200,
                   !.trace = r.trace \o <<"save", "deliver">>]
    ELSE [r EXCEPT !.pc = "failed", !.status = 500,
                   !.trace = r.trace \o <<"save">>]

\* chat_endpoint ends: the session is saved and the response returned, or
\* the write fails and the request ends with status 500
Finish(r, text) ==
    IF r.disk = "ok"
    THEN [r EXCEPT !.pc = "done", !.stored = r.history, !.delivered = text,
                   !.status = 200, !.trace = r.trace \o <<"save", "deliver">>]
    ELSE [r EXCEPT !.pc = "failed", !.status = 500,
                   !.trace = r.trace \o <<"save">>]

\* chat_endpoint up to its first gateway call: the classification call, or
\* the primary completion when the message is empty
BeginChat(i) ==
    /\ turn[i].pc = "start"
    /\ turn' = [turn EXCEPT ![i] =
           IF EmptyMessage(@.message)
           THEN LET c == ClassifyIntent(@.message, NotCalled)
                IN [@ EXCEPT !.intent = c.intent, !.confidence = c.confidence,
                             !.history = <<ChatMessage("user", turn[i].message)>>,
                             !.trace = <<"classified", "primary_call">>,
                             !.pc = "await_primary"]
           ELSE [@ EXCEPT !.trace = <<"classify_call">>,
                          !.pc = "await_classify"]]
    /\ UNCHANGED <<pc, message, gateway, calls, intent, confidence, via, tiers,
                   raised, scores, followUpVars, config, textVars,
                   store>>

\* the classification call returns; the primary completion is called
ClassifyReturns(i) ==
    /\ turn[i].pc = "await_classify"
    /\ LET c == ClassifyIntent(turn[i].message, Awaited(turn, i, "classify"))
       IN turn' = [turn EXCEPT ![i] =
              [@ EXCEPT !.intent = c.intent, !.confidence = c.confidence,
                        !.history = <<ChatMessage("user", turn[i].message)>>,
                        !.trace = @ \o <<"classify_return", "classified",
                                         "primary_call">>,
                        !.pc = "await_primary"]]
    /\ UNCHANGED <<pc, message, gateway, calls, intent, confidence, via, tiers,
                   raised, scores, followUpVars, config, textVars,
                   store>>

\* the gating decision taken although the classifier says greetings
GateIgnoringIntent(intent0, response) ==
    ShouldGenerateFollowUp("query", Len(response))

\* chat_endpoint: if should_generate_follow_up(intent, len(response))
Gate(intent0, response) == ShouldGenerateFollowUp(intent0, Len(response))

\* the primary completion returns: a failure ends the request with status
\* 500; otherwise the reply joins the session and the gating policy decides
\* whether the analysis is called
PrimaryReturns(i) ==
    /\ turn[i].pc = "await_primary"
    /\ LET r == ChatCompletion(Awaited(turn, i, "primary"))
       IN turn' = [turn EXCEPT ![i] =
              IF r.exc \/ r.null
              THEN [@ EXCEPT !.pc = "failed", !.status = 500,
                             !.trace = @ \o <<"primary_failed">>]
              ELSE LET replied ==
                           [@ EXCEPT !.response = r.text,
                                     !.history = Append(@, ChatMessage("assistant", r.text))]
                   IN IF Gate(replied.intent, r.text)
                      THEN [replied EXCEPT
                                !.gated = "yes",
                                !.trace = @ \o <<"primary_return", "gate_yes",
                                                 "analyze_call">>,
                                !.pc = "await_analyze"]
                      ELSE Finish([replied EXCEPT
                                       !.gated = "no",
                                       !.trace = @ \o <<"primary_return",
                                                        "gate_no">>],
                                  r.text)]
    /\ UNCHANGED <<pc, message, gateway, calls, intent, confidence, via, tiers,
                   raised, scores, followUpVars, config, textVars,
                   store>>

\* append_best_follow_up_to_response once the questions are there
AppendFirst(aiResponse, questions) ==
    IF questions = <<>> THEN aiResponse
    ELSE aiResponse \o <<Newline, Newline>> \o StripChars(questions[1], {Quote})

\* the analysis call returns inside generate_follow_up_questions; the
\* question call is made
AnalyzeReturns(i) ==
    /\ turn[i].pc = "await_analyze"
    /\ LET a == AnalyzeResponse(turn[i].response, turn[i].intent,
                                Awaited(turn, i, "analyze"))
       IN turn' = [turn EXCEPT ![i] =
              IF a.exc
              THEN Finish([@ EXCEPT
                               !.followUps = GetFallbackQuestions(turn[i].intent),
                               !.trace = @ \o <<"analyze_failed">>],
                          AppendFirst(turn[i].response,
                                      GetFallbackQuestions(turn[i].intent)))
              ELSE [@ EXCEPT !.analysis = a.val,
                             !.trace = @ \o <<"analyze_return", "generate_call">>,
                             !.pc = "await_generate"]]
    /\ UNCHANGED <<pc, message, gateway, calls, intent, confidence, via, tiers,
                   raised, scores, followUpVars, config, textVars,
                   store>>

\* the question call returns; the first question is appended, the session
\* saved and the response returned
GenerateReturns(i) ==
    /\ turn[i].pc = "await_generate"
    /\ LET g == GenerateQuestions(turn[i].message, turn[i].response,
                                  turn[i].analysis, Awaited(turn, i, "generate"))
           questions == IF g.exc THEN GetFallbackQuestions(turn[i].intent)
                        ELSE g.val
       IN turn' = [turn EXCEPT ![i] =
              Finish([@ EXCEPT !.followUps = questions,
                               !.trace = @ \o <<"generate_return">>],
                     AppendFirst(turn[i].response, questions))]
    /\ UNCHANGED <<pc, message, gateway, calls, intent, confidence, via, tiers,
                   raised, scores, followUpVars, config, textVars,
                   store>>

Init ==
    /\ pc = "serving"
    /\ message = <<>>
    /\ intent = ""
    /\ reply = <<>>
    /\ analyzerGw = NotCalled
    /\ generatorGw = NotCalled
    /\ ClassifierIdle
    /\ FollowUpIdle
    /\ config = Configuration
    /\ TextsIdle
    /\ turn \in [Requests -> {NewTurn(in) : in \in TurnInputs}]

Next ==
    \E i \in Requests :
        \/ BeginChat(i)
        \/ ClassifyReturns(i)
        \/ PrimaryReturns(i)
        \/ AnalyzeReturns(i)
        \/ GenerateReturns(i)

Spec == Init /\ [][Next]_vars

(***************************************************************************)
(* Properties of the classification by the gateway (SpecClassify).         *)
(***************************************************************************)
\* the request was classified after a gateway call that returned a text
ClassifiedFromText ==
    /\ pc = "classified"
    /\ calls = <<"classify">>
    /\ gateway.kind = "content_text"

\* C1: for every message and every gateway outcome the confidence returned
\* by classify lies in [0.0, 1.0], also when it comes from the keyword
\* scan of a text with a bare numeral.
C1_ConfidenceInRange ==
    pc = "classified" => (0 <= confidence /\ confidence <= One)

\* C2: for every message and every gateway outcome the intent returned by
\* classify is one of the four labels of the closed set; a label of the
\* gateway outside the set is never returned.
C2_IntentInClosedSet ==
    pc = "classified" =>
        intent \in {"greetings", "query", "information", "feedback"}

\* C2 witness: classified from a response whose JSON object carries a
\* label outside the set and a numeric confidence.
C2_Witness ==
    /\ ClassifiedFromText
    /\ \E i \in 1..Len(gateway.text) :
          /\ i + 3 <= Len(gateway.text)
          /\ gateway.text[i] = LBrace
          /\ gateway.text[i + 1] = MIntentOther
          /\ gateway.text[i + 2] = MConfHigh
          /\ gateway.text[i + 3] = RBrace

\* C4: when the gateway call of the generative classifier fails (timeout,
\* connection failure, non-success status, malformed transport response),
\* classify raises nothing and returns {query, 0.3}.
C4_GatewayFailureDefault ==
    (/\ pc = "classified"
     /\ ~EmptyMessage(message)
     /\ gateway.kind \in {"timeout", "connection_error", "status_error",
                          "malformed_body"})
        => (/\ ~raised
            /\ intent = "query"
            /\ confidence * 10 = 3 * One)

\* C4 witness: a classification whose gateway call was made and failed.
C4_Witness ==
    /\ pc = "classified"
    /\ calls = <<"classify">>
    /\ gateway.kind = "malformed_body"

\* the gateway call returned and neither the structured parse nor the
\* keyword scan yielded a result
NeitherTierYields ==
    /\ pc = "classified"
    /\ calls = <<"classify">>
    /\ gateway.kind = "content_text"
    /\ ~ParseAIResponse(gateway.text).found

\* C5 as stated: when the gateway call succeeds but neither the structured
\* parse nor the keyword scan yields a result, classify returns {query, 0.3}.
C5_Original ==
    NeitherTierYields => (intent = "query" /\ confidence * 10 = 3 * One)

\* C5 amended: when the gateway call succeeds but neither the structured
\* parse nor the keyword scan yields a result, classify returns {query, 0.5}.
C5_ParseFailureDefault ==
    NeitherTierYields => (~raised /\ intent = "query" /\ confidence * 2 = One)

\* C5 witness: a text without any label was classified.
C5_Witness ==
    /\ ClassifiedFromText
    /\ gateway.text /= <<>>
    /\ LabelsInText(gateway.text) = {}

\* C6: every failure of the structured parse (no JSON object, JSON text
\* that does not parse, a label outside the set, a missing or non-numeric
\* confidence) leads to the keyword scan, and the default is returned only
\* after the keyword scan found nothing: the tiers are tried in the order
\* structured parse, keyword scan, default.
C6_TiersInOrder ==
    ClassifiedFromText =>
        \/ (via = "json" /\ tiers = <<"json">>)
        \/ (via \in {"keyword", "default"} /\ tiers = <<"json", "keyword">>)

\* tokens i..k of the text are a JSON object: members between two braces
EmbeddedObject(text, i, k) ==
    /\ i < k
    /\ text[i] = LBrace
    /\ text[k] = RBrace
    /\ \A j \in (i + 1)..(k - 1) : IsMember(text[j])

\* an opening brace at i with an "intent" key before the next closing brace
OpensIntentSpan(text, i) ==
    /\ text[i] = LBrace
    /\ \E j \in (i + 1)..Len(text) :
          /\ HasIntentKey(text[j])
          /\ \A q \in (i + 1)..j : text[q] /= RBrace
          /\ \E k \in (j + 1)..Len(text) : text[k] = RBrace

\* member j is the one that gives its key in the object i..k
GivesKey(text, i, k, j, key) ==
    /\ j \in (i + 1)..(k - 1)
    /\ MemberKey(text[j]) = key
    /\ \A q \in (j + 1)..(k - 1) : MemberKey(text[q]) /= key

KeywordScanConfidence(text) ==
    LET ps == {j \in 1..Len(text) : NumeralIn(text[j]) >= 0}
    IN IF ps = {} THEN (8 * One) \div 10
       ELSE LET v == NumeralIn(text[CHOOSE j \in ps : \A j2 \in ps : j <= j2])
            IN IF v <= One THEN v ELSE v \div 100

\* C8 as stated: the keyword scan produces a result only when one of the
\* four labels occurs in the lowercased response as a whole word; the
\* confidence is 0.8 without a numeral, the numeral v when v <= 1, v/100
\* when v > 1.
C8_Original ==
    (ClassifiedFromText /\ via = "keyword") =>
        /\ \E j \in 1..Len(gateway.text) : intent \in WholeWordLabelsIn(gateway.text[j])
        /\ confidence = KeywordScanConfidence(gateway.text)

\* C8 amended: the keyword scan produces a result only when one of the four
\* labels occurs in the lowercased response as a substring (inside a longer
\* word too); the confidence is 0.8 without a numeral, the first numeral v
\* when v <= 1, v/100 when v > 1.
C8_KeywordScan ==
    (ClassifiedFromText /\ via = "keyword") =>
        /\ \E j \in 1..Len(gateway.text) : intent \in LabelsIn(gateway.text[j])
        /\ confidence = KeywordScanConfidence(gateway.text)

\* C8 witness: a keyword-scan result read from a text with a numeral
\* above 1.
C8_Witness ==
    /\ ClassifiedFromText
    /\ via = "keyword"
    /\ \E j \in 1..Len(gateway.text) : NumeralIn(gateway.text[j]) > One

(***************************************************************************)
(* Properties of the two strategies (SpecStrategies).                      *)
(***************************************************************************)
\* the message is empty or holds only whitespace, and was classified
BlankClassified ==
    /\ pc \in {"classified", "pattern_classified"}
    /\ \A i \in 1..Len(message) : message[i] = " "

\* C3 as stated: for an empty or whitespace-only message classify returns
\* {query, 0.1} and makes no gateway call, under both strategies.
C3_Original ==
    BlankClassified =>
        (intent = "query" /\ confidence * 10 = One /\ calls = <<>>)

\* C3 amended: for an empty or whitespace-only message classify makes no
\* gateway call and returns intent query under both strategies, with
\* confidence 0.1 under the generative and 0.0 under the pattern-based one.
C3_EmptyMessageDefault ==
    BlankClassified =>
        /\ intent = "query"
        /\ calls = <<>>
        /\ ~raised
        /\ (pc = "classified" => confidence * 10 = One)
        /\ (pc = "pattern_classified" => confidence = 0)

\* C3 witness: a whitespace-only message was classified by the generative
\* strategy while the gateway had a text to give.
C3_Witness ==
    /\ BlankClassified
    /\ pc = "classified"
    /\ Len(message) >= 2
    /\ gateway.kind = "content_text"

(***************************************************************************)
(* Properties of the follow-up questions (SpecFollowUp).                   *)
(***************************************************************************)
\* a gateway call of the follow-up generation that was made has failed
GatewayFailed(tr) == tr.kind \in TransportFailures

\* text is question with the quotes at its two ends removed
WithoutOuterQuotes(text, question) ==
    \E i \in 1..(Len(question) + 1) : \E j \in 0..Len(question) :
        /\ text = SubSeq(question, i, j)
        /\ \A k \in 1..(i - 1) : question[k] = Quote
        /\ \A k \in (j + 1)..Len(question) : question[k] = Quote
        /\ text /= <<>> => (text[1] /= Quote /\ text[Len(text)] /= Quote)

\* enhanced is the reply, a blank line and one question
OneQuestionAppended ==
    /\ followUps /= <<>>
    /\ Len(enhanced) >= Len(reply) + 2
    /\ SubSeq(enhanced, 1, Len(reply)) = reply
    /\ SubSeq(enhanced, Len(reply) + 1, Len(reply) + 2) = <<Newline, Newline>>
    /\ WithoutOuterQuotes(SubSeq(enhanced, Len(reply) + 3, Len(enhanced)),
                          followUps[1])

\* C9: appending the best follow-up to a reply raises nothing, whatever the
\* gateway does with the analysis call and the question call, and returns
\* either the reply unchanged or the reply, a blank line and one question.
C9_AppendNeverRaises ==
    pc = "appended" =>
        /\ ~raised
        /\ (enhanced = reply \/ OneQuestionAppended)

\* both calls failed and a question was appended to the reply all the same
C9_Witness ==
    /\ pc = "appended"
    /\ GatewayFailed(analyzerGw)
    /\ GatewayFailed(generatorGw)
    /\ ~raised
    /\ enhanced /= reply
    /\ OneQuestionAppended

\* the fixed questions the intent selects
FallbackForIntent ==
    CASE intent = "query" ->
             <<QueryFallback1, QueryFallback2, QueryFallback3>>
      [] intent = "information" ->
             <<InformationFallback1, InformationFallback2, InformationFallback3>>
      [] OTHER ->
             <<GenericFallback1, GenericFallback2, GenericFallback3>>

\* C10: when a gateway call of the follow-up generation fails, the questions
\* returned are the fixed fallback questions selected by the intent.
C10_FallbackByIntent ==
    (/\ pc = "generated"
     /\ GatewayFailed(analyzerGw) \/ GatewayFailed(generatorGw))
        => followUps = FallbackForIntent

(***************************************************************************)
(* Properties of the enhancement of a reply (SpecFollowUp).                *)
(***************************************************************************)
\* every gateway call of the follow-up generation fails
GatewayAlwaysFails == GatewayFailed(analyzerGw) /\ GatewayFailed(generatorGw)

\* text is the reply, a blank line and the question
ReplyThenQuestion(text, question) ==
    text = reply \o <<Newline, Newline>> \o question

C12_FirstCandidateAppended ==
    pc = "appended" =>
        LET candidates == GenerateFollowUpQuestions(message, reply, intent,
                                                    analyzerGw, generatorGw).val
        IN IF candidates = <<>>
           THEN enhanced = reply
           ELSE /\ Len(enhanced) >= Len(reply) + 2
                /\ SubSeq(enhanced, 1, Len(reply) + 2)
                       = reply \o <<Newline, Newline>>
                /\ WithoutOuterQuotes(
                       SubSeq(enhanced, Len(reply) + 3, Len(enhanced)),
                       candidates[1])

\* several candidates, the first one quoted and not the last one, and the
\* first one appended without its quotes
C12_Witness ==
    /\ pc = "appended"
    /\ Len(followUps) >= 2
    /\ followUps[1] = QQuoted
    /\ followUps[Len(followUps)] /= QQuoted
    /\ enhanced = reply \o <<Newline, Newline>>
                      \o SubSeq(QQuoted, 2, Len(QQuoted) - 1)

(***************************************************************************)
(* Properties of the gating policy (SpecGating).                           *)
(***************************************************************************)
\* C13: the gating policy is true exactly when the intent is one of query,
\* information, feedback and the reply has at least 50 characters; it is
\* false for greetings at every length, for any other intent, and for every
\* length below 50.
C13_GatingPolicy ==
    pc = "gated" =>
        (followUp <=> (/\ intent \in {"query", "information", "feedback"}
                       /\ Len(reply) >= 50))

\* the policy lets a query's reply of exactly 50 characters through
C13_Witness ==
    /\ pc = "gated"
    /\ intent = "query"
    /\ Len(reply) = 50
    /\ followUp

(***************************************************************************)
(* Properties of the questions returned (SpecQuestions).                   *)
(***************************************************************************)
\* the characters that number or bullet a line
EnumerationMarkers ==
    {"-", "*", ".", " ", "0", "1", "2", "3", "4", "5", "6", "7", "8", "9"}

WellFormedQuestion(q) ==
    /\ HasChar(q, "?")
    /\ Len(q) > 10
    /\ q[1] \notin EnumerationMarkers
    /\ ~(q[1] = Quote /\ q[Len(q)] = Quote)

\* C14: every question of every list returned by the generation of
\* follow-ups (parsed line by line, parsed by the sentence split, or taken
\* from a fixed fallback list) contains a question mark, is longer than 10
\* characters, and carries no leading enumeration marker and no surrounding
\* quotes.
C14_QuestionsWellFormed ==
    pc = "generated" =>
        \A k \in 1..Len(followUps) : WellFormedQuestion(followUps[k])

\* the k-th index of a set of indices, in increasing order
KthIndex(S, k) == CHOOSE x \in S : Cardinality({y \in S : y < x}) = k - 1

\* the line qualifies as a question
QualifyingLine(line) ==
    /\ HasChar(line, "?")
    /\ Len(StripChars(StripChars(line, Whitespace), MarkerChars)) > 10

\* the sentence qualifies as a question
QualifyingSentence(sentence) ==
    /\ HasChar(sentence, "?")
    /\ Len(StripChars(sentence, Whitespace)) > 10

\* questions are the first (at most three) qualifying parts, in their order
FirstQualifying(questions, parts, qualifies(_), cleaned(_)) ==
    LET idx == {i \in 1..Len(parts) : qualifies(parts[i])}
    IN /\ Len(questions) = Min(3, Cardinality(idx))
       /\ \A k \in 1..Len(questions) :
              questions[k] = cleaned(parts[KthIndex(idx, k)])

CleanedLine(line) == StripChars(StripChars(line, Whitespace), MarkerChars)

CleanedSentence(sentence) == StripChars(sentence, Whitespace)

\* C15: the generation of follow-ups returns at most 3 questions, and the
\* questions parsed from the generator's answer are its first qualifying
\* candidates in the order they appear there, never reordered.
C15_FirstThreeInOrder ==
    pc = "generated" =>
        /\ Len(followUps) <= 3
        /\ generatorGw.kind = "content_text" =>
               LET lines == SplitOn(StripChars(generatorGw.text, Whitespace),
                                    Newline)
                   sentences == SplitOn(generatorGw.text, ".")
               IN IF \E i \in 1..Len(lines) : QualifyingLine(lines[i])
                  THEN FirstQualifying(followUps, lines, QualifyingLine,
                                       CleanedLine)
                  ELSE FirstQualifying(followUps, sentences,
                                       QualifyingSentence, CleanedSentence)

\* four qualifying lines, the first three returned in their order
C15_Witness ==
    /\ pc = "generated"
    /\ generatorGw.kind = "content_text"
    /\ generatorGw.text = JoinLines(<<QOther, QNumbered, QPlain, QTenth>>)
    /\ Len(followUps) = 3
    /\ followUps[1] = QOther
    /\ followUps[3] = QPlain

(***************************************************************************)
(* Properties of the analysis of a reply (SpecAnalyze).                    *)
(***************************************************************************)
\* line i of the gateway's answer starts with the prefix of the field
Recognized(i, key) ==
    /\ analyzerGw.kind = "content_text"
    /\ i \in 1..Len(analyzerGw.text)
    /\ analyzerGw.text[i].key = key
    /\ (i = 1 \/ ~analyzerGw.text[i].indent)

\* some line of the gateway's answer starts with the prefix of the field
HasPrefix(key) ==
    /\ analyzerGw.kind = "content_text"
    /\ \E i \in 1..Len(analyzerGw.text) : Recognized(i, key)

\* C16: the analysis raises nothing; when its gateway call fails, or no
\* line of the answer carries a recognized prefix, it is exactly the default
\* analysis (type general, topics "general information", complexity
\* moderate, completeness complete); otherwise a recognized prefix
\* overwrites only its own field and the other fields keep their defaults.
C16_AnalysisDefaults ==
    pc = "analyzed" =>
        /\ ~raised
        /\ ~HasPrefix("Type") => analysis.type = "general"
        /\ ~HasPrefix("Topics") => analysis.topics = <<"general information">>
        /\ ~HasPrefix("Complexity") => analysis.complexity = "moderate"
        /\ ~HasPrefix("Completeness") => analysis.completeness = "complete"
        /\ ~HasPrefix("Exploration") => analysis.exploration = "general aspects"
        /\ HasPrefix("Type") => analysis.type \in {"technical", "general", "query"}
        /\ HasPrefix("Topics") => Len(analysis.topics) = 4
        /\ HasPrefix("Exploration") => analysis.exploration = "proofs"

\* an answer with a Topics line and lines without a recognized prefix: only
\* the topics are overwritten
C16_Witness ==
    /\ pc = "analyzed"
    /\ HasPrefix("Topics")
    /\ \E i \in 1..Len(analyzerGw.text) :
           analyzerGw.text[i].key = "Type" /\ ~Recognized(i, "Type")
    /\ analysis.topics = <<"tla", "model checking", "proofs", "tools">>
    /\ analysis.type = "general"
    /\ analysis.complexity = "moderate"
    /\ analysis.completeness = "complete"

\* C17: every analysis returned, for any answer of the gateway, is
\* well-formed: the type is lowercase, there are at most 3 topics, the
\* complexity is one of simple, moderate, complex and the completeness one
\* of complete, partial, overview.
C17_AnalysisWellFormed ==
    pc = "analyzed" =>
        /\ analysis.type \notin {"Technical", "General", " General "}
        /\ Len(analysis.topics) <= 3
        /\ analysis.complexity \in {"simple", "moderate", "complex"}
        /\ analysis.completeness \in {"complete", "partial", "overview"}

(***************************************************************************)
(* Properties of the chat requests (Spec).                                 *)
(***************************************************************************)
\* the position of an event in the trace of a request, 0 when absent
Position(tr, e) ==
    IF \E k \in 1..Len(tr) : tr[k] = e
    THEN CHOOSE k \in 1..Len(tr) : tr[k] = e
    ELSE 0

Happened(tr, e) == Position(tr, e) > 0

\* e happened, and before f
Before(tr, e, f) == Happened(tr, e) /\ Position(tr, e) < Position(tr, f)

\* the gating decision of a request, by intent and length of the reply
PolicyAllows(r) ==
    /\ r.intent \in {"query", "information", "feedback"}
    /\ Len(r.response) >= 50

\* C18: in one chat request the stages run in sequence: the classification
\* completes before the gating decision, the analysis call is made only
\* after the gating policy returned true, and the question call only after
\* the analysis has returned; when the policy returns false neither call is
\* made and the reply is delivered unmodified.
C18_StagesInSequence ==
    \A i \in Requests :
        LET r == turn[i]
            tr == r.trace
        IN /\ \A k, l \in 1..Len(tr) : tr[k] = tr[l] => k = l
           /\ Happened(tr, "primary_return") =>
                  /\ Before(tr, "classified", "primary_return")
                  /\ Happened(tr, "gate_yes") \/ Happened(tr, "gate_no")
           /\ Happened(tr, "gate_yes") => Before(tr, "classified", "gate_yes")
           /\ Happened(tr, "gate_no") => Before(tr, "classified", "gate_no")
           /\ Happened(tr, "analyze_call") =>
                  /\ Before(tr, "gate_yes", "analyze_call")
                  /\ PolicyAllows(r)
           /\ Happened(tr, "generate_call") =>
                  Before(tr, "analyze_return", "generate_call")
           /\ (Happened(tr, "primary_return") /\ ~PolicyAllows(r)) =>
                  /\ ~Happened(tr, "analyze_call")
                  /\ ~Happened(tr, "generate_call")
                  /\ r.pc = "done" => r.delivered = r.response

\* a request went through every stage, another one was stopped by the
\* policy and delivered its reply as it was
C18_Witness ==
    /\ turn["r1"].pc = "done"
    /\ turn["r1"].trace =
           <<"classify_call", "classify_return", "classified", "primary_call",
             "primary_return", "gate_yes", "analyze_call", "analyze_return",
             "generate_call", "generate_return", "save", "deliver">>
    /\ turn["r2"].pc = "done"
    /\ turn["r2"].intent = "greetings"
    /\ turn["r2"].response = ReplyLong
    /\ turn["r2"].delivered = ReplyLong
    /\ ~Happened(turn["r2"].trace, "analyze_call")

\* C19: chat requests that run concurrently and interleave at their gateway
\* calls do not affect one another: the classification and the delivered
\* reply of a request are those its own message and its own gateway
\* outcomes give when it runs alone, and the tables of the classifier and
\* the generator are never written.
C19_RequestsIndependent ==
    /\ config = Configuration
    /\ \A i \in Requests :
           LET r == turn[i]
               c == ClassifyIntent(r.message, r.gw.classify)
           IN /\ Happened(r.trace, "classified") =>
                     (r.intent = c.intent /\ r.confidence = c.confidence)
              /\ Happened(r.trace, "primary_return") =>
                     r.response = r.gw.primary.text
              /\ r.pc = "done" =>
                     r.delivered = EnhanceResponse(r.message, r.gw.primary.text,
                                                   c.intent, r.gw.analyze,
                                                   r.gw.generate).val

\* one request has delivered its enhanced reply while another one, with
\* other gateway outcomes, is suspended at its question call
C19_Witness ==
    /\ turn["r1"].pc = "done"
    /\ turn["r1"].gated = "yes"
    /\ turn["r1"].delivered = ReplyLong \o <<Newline, Newline>>
                                  \o SubSeq(QQuoted, 2, Len(QQuoted) - 1)
    /\ turn["r2"].pc = "await_generate"
    /\ turn["r2"].gw.generate.kind = "timeout"
    /\ turn["r2"].gw.classify /= turn["r1"].gw.classify

(***************************************************************************)
(* Properties of the pattern scores (SpecStrategies).                      *)
(***************************************************************************)
\* the pattern set of the k-th intent
PatternsOf(k) ==
    CASE k = 1 -> GreetingPatterns
      [] k = 2 -> QueryPatterns
      [] k = 3 -> InformationPatterns
      [] OTHER -> FeedbackPatterns

\* the score of the k-th intent for the message classified, as a fraction:
\* min(1, matching / patterns * max(0.5, 1 - length / 200))
StatedScore(k) ==
    LET text == LowerText(Strip(message))
        matching == Cardinality({p \in 1..Len(PatternsOf(k)) :
                                    PatternSearch(PatternsOf(k)[p], text)})
        factor == IF 200 - CharLen(text) > 100 THEN 200 - CharLen(text) ELSE 100
        num == matching * factor
        den == Len(PatternsOf(k)) * 200
    IN IF num > den THEN <<1, 1>> ELSE <<num, den>>

\* the greatest of the stated scores
StatedMaximum ==
    LET k == CHOOSE k \in 1..4 :
                 \A j \in 1..4 :
                     StatedScore(j)[1] * StatedScore(k)[2]
                         <= StatedScore(k)[1] * StatedScore(j)[2]
    IN StatedScore(k)

\* C20: the pattern-based classify returns the intent with the maximum
\* score and that score as confidence, where the score of an intent is
\* min(1, (matching patterns / patterns of the intent) * max(0.5, 1 -
\* length / 200)); when the maximum is below 0.1 it returns {query, 0.1}.
C20_PatternScore ==
    (pc = "pattern_classified" /\ ~BlankClassified) =>
        IF StatedMaximum[1] * 10 < StatedMaximum[2]
        THEN intent = "query" /\ confidence * 10 = One
        ELSE /\ \E k \in 1..4 :
                    /\ IntentOrder[k] = intent
                    /\ StatedScore(k) = StatedMaximum
             /\ confidence = (StatedMaximum[1] * One) \div StatedMaximum[2]

\* a greeting that matches two of the seven greeting patterns, scored a
\* little below 2/7 for its length
C20_Witness ==
    /\ pc = "pattern_classified"
    /\ message = <<"Hello", Bang>>
    /\ intent = "greetings"
    /\ via = "score"
    /\ confidence > (One \div Len(GreetingPatterns))
    /\ confidence < (2 * One) \div Len(GreetingPatterns)

\* a single feedback match scores below the threshold: {query, 0.1}
C20_BelowThreshold ==
    /\ pc = "pattern_classified"
    /\ message = <<"Thanks">>
    /\ via = "threshold"
    /\ scores[4][1] > 0

(***************************************************************************)
(* Tied pattern scores (SpecTies).                                         *)
(***************************************************************************)
\* a word of sixty characters that no pattern matches
Filler == "xxxxxxxxxxxxxxxxxxxxxxxxxxxxxxxxxxxxxxxxxxxxxxxxxxxxxxxxxxxx"

\* longest message of these runs, in tokens
MaxTieLen == 5

TieTokens == {Blank, "Hello", "news", "what", Filler}

TieMessages == {m \in SeqsUpTo(TieTokens, MaxTieLen) : WellFormed(m)}

InitTies ==
    /\ Start
    /\ message \in TieMessages
    /\ gateway = Transport("timeout", NoText)

NextTies == PatternClassify

SpecTies == InitTies /\ [][NextTies]_vars

\* the intents whose score no other score exceeds
TiedAtMaximum ==
    {i \in 1..Len(IntentOrder) :
        \A j \in 1..Len(IntentOrder) : ~FracLess(scores[i], scores[j])}

\* the tied intent that comes first in greetings, query, information, feedback
FirstTied ==
    IntentOrder[CHOOSE i \in TiedAtMaximum : \A j \in TiedAtMaximum : i <= j]

\* the greatest score reaches the threshold 0.1
MaximumReachesThreshold ==
    \A i \in TiedAtMaximum : ~FracLess(scores[i], <<MinConfidence, One>>)

\* C21 as stated: whenever two or more intents share the maximum score, the
\* pattern classify returns the first of them in the fixed order
C21_Original ==
    (pc = "pattern_classified" /\ Cardinality(TiedAtMaximum) >= 2)
        => intent = FirstTied

\* C21: when two or more intents share the maximum pattern score and that
\* score is at least 0.1, the pattern classify returns the one that comes
\* first in the order greetings, query, information, feedback, with that score
C21_TieFirstInOrder ==
    (pc = "pattern_classified" /\ Cardinality(TiedAtMaximum) >= 2
        /\ MaximumReachesThreshold)
        => /\ intent = FirstTied
           /\ \E i \in TiedAtMaximum : confidence = FracFixed(scores[i])

\* greetings and information tie at a seventh of their patterns
C21_Witness ==
    /\ pc = "pattern_classified"
    /\ TiedAtMaximum = {1, 3}
    /\ MaximumReachesThreshold
    /\ intent = "greetings"

(***************************************************************************)
(* Message complexity (SpecComplexity).                                    *)
(***************************************************************************)
\* the index of the first character of the text in S, or Len(text) + 1
RECURSIVE FirstIn(_, _, _)
FirstIn(text, S, i) ==
    IF i > Len(text) \/ text[i] \in S THEN i ELSE FirstIn(text, S, i + 1)

\* str.split(): the runs of characters between whitespace
RECURSIVE Split(_)
Split(text) ==
    LET t == LStripChars(text, Whitespace)
        n == FirstIn(t, Whitespace, 1)
    IN IF t = <<>>
       THEN <<>>
       ELSE <<SubSeq(t, 1, n - 1)>> \o Split(SubSeq(t, n, Len(t)))

\* the greatest word count of a simple message
SimpleMaxWords == 3
\* the greatest word count of a moderate message
ModerateMaxWords == 10

\* the complexity with the boundaries one word lower
AnalyzeMessageComplexityBelow(message0) ==
    LET word_count == Len(Split(message0))
    IN IF word_count < SimpleMaxWords THEN "simple"
       ELSE IF word_count < ModerateMaxWords THEN "moderate"
       ELSE "complex"

\* AIIntentClassifier.analyze_message_complexity
AnalyzeMessageComplexity(message0) ==
    LET word_count == Len(Split(message0))
    IN IF word_count <= SimpleMaxWords THEN "simple"
       ELSE IF word_count <= ModerateMaxWords THEN "moderate"
       ELSE "complex"

\* IntentClassifier.analyze_message_complexity
PatternAnalyzeMessageComplexity(message0) ==
    LET word_count == Len(Split(message0))
    IN IF word_count <= SimpleMaxWords THEN "simple"
       ELSE IF word_count <= ModerateMaxWords THEN "moderate"
       ELSE "complex"

\* ai_intent_classifier.analyze_message_complexity(message)
AnalyzeComplexity ==
    /\ pc = "start"
    /\ complexity' = AnalyzeMessageComplexity(message)
    /\ pc' = "complexity"
    /\ UNCHANGED <<message, gateway, calls, intent, confidence, via, tiers,
                   raised, scores, followUpVars, turn, config, keywords,
                   store>>

\* intent_classifier.analyze_message_complexity(message)
PatternAnalyzeComplexity ==
    /\ pc = "start"
    /\ complexity' = PatternAnalyzeMessageComplexity(message)
    /\ pc' = "pattern_complexity"
    /\ UNCHANGED <<message, gateway, calls, intent, confidence, via, tiers,
                   raised, scores, followUpVars, turn, config, keywords,
                   store>>

\* most words in a message of these runs
MaxWords == 12

\* the text of n words, sep between them, lead before and trail after
RECURSIVE Words(_, _, _)
Words(n, word, sep) ==
    IF n = 0 THEN <<>>
    ELSE IF n = 1 THEN word
    ELSE word \o sep \o Words(n - 1, word, sep)

Separators == {<<" ">>, <<" ", " ">>, <<Newline>>}
Margins == {<<>>, <<" ">>}
SampleWords == {<<"a">>, <<"o", "k", "!">>}

ComplexityMessages ==
    {lead \o Words(n, word, sep) \o trail :
        n \in 0..MaxWords, word \in SampleWords, sep \in Separators,
        lead \in Margins, trail \in Margins}

InitComplexity ==
    /\ Start
    /\ message \in ComplexityMessages
    /\ gateway = NotCalled

NextComplexity ==
    \/ AnalyzeComplexity
    \/ PatternAnalyzeComplexity

SpecComplexity == InitComplexity /\ [][NextComplexity]_vars

\* the number of words of a text: the places where a word begins
WordCount(text) ==
    Cardinality({i \in 1..Len(text) :
                    /\ text[i] \notin Whitespace
                    /\ i = 1 \/ text[i - 1] \in Whitespace})

\* C23: the complexity of a message depends only on its word count: simple
\* for at most 3 words (0 included), moderate for 4 to 10 words, complex for
\* 11 or more, under both classifiers
C23_ComplexityByWordCount ==
    pc \in {"complexity", "pattern_complexity"} =>
        LET n == WordCount(message)
        IN /\ n <= 3 => complexity = "simple"
           /\ (4 <= n /\ n <= 10) => complexity = "moderate"
           /\ n >= 11 => complexity = "complex"

\* ten words, some blanks apart and with blanks around them, are moderate
C23_Witness ==
    /\ pc = "pattern_complexity"
    /\ WordCount(message) = 10
    /\ Len(message) > 30
    /\ Head(message) = " "
    /\ complexity = "moderate"

(***************************************************************************)
(* Keywords of a message (SpecKeywords).                                   *)
(***************************************************************************)
\* the characters of a string
Chars(s) == [i \in 1..Len(s) |-> SubSeq(s, i, i)]

UpperCase == Chars("ABCDEFGHIJKLMNOPQRSTUVWXYZ")
LowerCase == Chars("abcdefghijklmnopqrstuvwxyz")

\* str.lower(), of a character and of a text
LowerChar(c) ==
    IF \E i \in 1..Len(UpperCase) : UpperCase[i] = c
    THEN LowerCase[CHOOSE i \in 1..Len(UpperCase) : UpperCase[i] = c]
    ELSE c

LowerChars(text) == [i \in 1..Len(text) |-> LowerChar(text[i])]

\* the characters \w matches
WordChars ==
    {LowerCase[i] : i \in 1..Len(LowerCase)}
        \cup {UpperCase[i] : i \in 1..Len(UpperCase)}
        \cup {"0", "1", "2", "3", "4", "5", "6", "7", "8", "9", "_"}

\* the index after the run of word characters that starts at i
RECURSIVE RunEnd(_, _)
RunEnd(text, i) ==
    IF i > Len(text) \/ text[i] \notin WordChars THEN i ELSE RunEnd(text, i + 1)

\* re.findall(r'\b\w+\b', text): the maximal runs of word characters
RECURSIVE FindAllWords(_)
FindAllWords(text) ==
    IF text = <<>> THEN <<>>
    ELSE IF Head(text) \notin WordChars THEN FindAllWords(Tail(text))
    ELSE LET n == RunEnd(text, 1)
         IN <<SubSeq(text, 1, n - 1)>> \o FindAllWords(SubSeq(text, n, Len(text)))

\* stop_words
StopWords ==
    {Chars(w) : w \in
        {"the", "a", "an", "and", "or", "but", "in", "on", "at", "to", "for",
         "of", "with", "by", "is", "are", "was", "were", "be", "been", "being",
         "have", "has", "had", "do", "does", "did", "will", "would", "could",
         "should", "may", "might", "can", "this", "that", "these", "those",
         "i", "you", "he", "she", "it", "we", "they", "me", "him", "her", "us",
         "them"}}

\* a keyword is longer than this
ShortWordLen == 2
\* the most keywords returned
MaxKeywords == 10

\* word not in stop_words and len(word) > 2
IsKeyword(word) == word \notin StopWords /\ Len(word) > ShortWordLen

\* the keywords without the cut to ten
ExtractKeywordsUncut(message0) ==
    SelectSeq(FindAllWords(LowerChars(message0)), IsKeyword)

\* AIIntentClassifier.extract_keywords
ExtractKeywords(message0) ==
    LET words == FindAllWords(LowerChars(message0))
        kws == SelectSeq(words, IsKeyword)
    IN SubSeq(kws, 1, Min(MaxKeywords, Len(kws)))

\* IntentClassifier.extract_keywords
PatternExtractKeywords(message0) ==
    LET words == FindAllWords(LowerChars(message0))
        kws == SelectSeq(words, IsKeyword)
    IN SubSeq(kws, 1, Min(MaxKeywords, Len(kws)))

\* ai_intent_classifier.extract_keywords(message)
Keywords ==
    /\ pc = "start"
    /\ keywords' = ExtractKeywords(message)
    /\ pc' = "keywords"
    /\ UNCHANGED <<message, gateway, calls, intent, confidence, via, tiers,
                   raised, scores, followUpVars, turn, config, complexity,
                   store>>

\* intent_classifier.extract_keywords(message)
PatternKeywords ==
    /\ pc = "start"
    /\ keywords' = PatternExtractKeywords(message)
    /\ pc' = "pattern_keywords"
    /\ UNCHANGED <<message, gateway, calls, intent, confidence, via, tiers,
                   raised, scores, followUpVars, turn, config, complexity,
                   store>>

\* the words the messages of these runs are made of
Vocabulary ==
    {Chars("The"), Chars("Cat"), Chars("up"), Chars("data"), Chars("x_1"),
     Chars("don't")}

\* most words of the phrase a message repeats, and most repetitions
MaxPhraseLen == 3
MaxRepeats == 4

KeywordSeparators == {<<" ">>, <<",", " ">>}

\* the words of the phrase, sep after each
RECURSIVE Phrase(_, _)
Phrase(ws, sep) ==
    IF ws = <<>> THEN <<>> ELSE Head(ws) \o sep \o Phrase(Tail(ws), sep)

RECURSIVE Repeat(_, _)
Repeat(text, k) == IF k = 0 THEN <<>> ELSE text \o Repeat(text, k - 1)

KeywordMessages ==
    {Repeat(Phrase(ws, sep), k) :
        ws \in SeqsUpTo(Vocabulary, MaxPhraseLen), sep \in KeywordSeparators,
        k \in 1..MaxRepeats}

InitKeywords ==
    /\ Start
    /\ message \in KeywordMessages
    /\ gateway = NotCalled

NextKeywords ==
    \/ Keywords
    \/ PatternKeywords

SpecKeywords == InitKeywords /\ [][NextKeywords]_vars

\* the places of a text where a token begins
TokenStarts(text) ==
    {i \in 1..Len(text) :
        /\ text[i] \in WordChars
        /\ i = 1 \/ text[i - 1] \notin WordChars}

\* the token that begins at i, in lower case
TokenAt(text, i) ==
    LET last == CHOOSE j \in i..Len(text) :
                    /\ \A k \in i..j : text[k] \in WordChars
                    /\ j = Len(text) \/ text[j + 1] \notin WordChars
    IN LowerChars(SubSeq(text, i, last))

\* the places where a token that is no stop word and longer than 2 begins
QualifyingStarts(text) ==
    {i \in TokenStarts(text) :
        /\ TokenAt(text, i) \notin StopWords
        /\ Len(TokenAt(text, i)) > 2}

\* C24: keywords(message) returns at most 10 lowercase tokens, none a stop
\* word, none of length 2 or less, and they are the first qualifying tokens
\* of the message in their order of occurrence, under both classifiers
C24_KeywordsFirstQualifying ==
    pc \in {"keywords", "pattern_keywords"} =>
        LET Q == QualifyingStarts(message)
        IN /\ Len(keywords) <= 10
           /\ Len(keywords) = Min(10, Cardinality(Q))
           /\ \A k \in 1..Len(keywords) :
                  /\ keywords[k] = TokenAt(message, KthIndex(Q, k))
                  /\ keywords[k] \notin StopWords
                  /\ Len(keywords[k]) > 2
                  /\ \A c \in 1..Len(keywords[k]) :
                         \A u \in 1..Len(UpperCase) :
                             keywords[k][c] /= UpperCase[u]

\* twelve tokens qualify, with short ones between them, and the
\* first ten are returned
C24_Witness ==
    /\ pc = "keywords"
    /\ Cardinality(QualifyingStarts(message)) = 12
    /\ Cardinality(TokenStarts(message)) > 12
    /\ Len(keywords) = 10
    /\ keywords[1] = <<"c", "a", "t">>
    /\ keywords[2] = <<"d", "o", "n">>

(***************************************************************************)
(* Independence of the analysis call and the question call (SpecFollowUp). *)
(***************************************************************************)
\* questions are what the parsing of the generator's text yields: its first
\* qualifying lines or, when no line qualifies, its first qualifying sentences
QuestionsParsedFrom(questions, text) ==
    LET lines == SplitOn(StripChars(text, Whitespace), Newline)
        sentences == SplitOn(text, ".")
    IN IF \E i \in 1..Len(lines) : QualifyingLine(lines[i])
       THEN FirstQualifying(questions, lines, QualifyingLine, CleanedLine)
       ELSE FirstQualifying(questions, sentences, QualifyingSentence,
                            CleanedSentence)

\* C25: when the analyzer's gateway call fails and the generator's call
\* succeeds, the generation of follow-ups still makes the generator call,
\* seeded with the default analysis, and returns the questions parsed from
\* the generator's response.
C25_AnalyzerFailureIndependent ==
    (pc = "generated" /\ GatewayFailed(analyzerGw)
        /\ generatorGw.kind = "content_text") =>
        /\ calls = <<"analyze", "generate">>
        /\ ~raised
        /\ analysis = [type |-> "general",
                       topics |-> <<"general information">>,
                       complexity |-> "moderate",
                       completeness |-> "complete",
                       exploration |-> "general aspects"]
        /\ QuestionsParsedFrom(followUps, generatorGw.text)

\* the analysis call times out and the two questions of the generator's
\* answer are returned
C25_Witness ==
    /\ pc = "generated"
    /\ analyzerGw.kind = "timeout"
    /\ generatorGw.kind = "content_text"
    /\ generatorGw.text = JoinLines(<<QNumbered, QPlain>>)
    /\ calls = <<"analyze", "generate">>
    /\ analysis.type = "general"
    /\ Len(followUps) = 2
    /\ followUps[2] = QPlain

(***************************************************************************)
(* The order of the labels in the keyword scan (SpecClassify).             *)
(***************************************************************************)
\* the order the labels are looked for
ScanOrder == <<"greetings", "query", "information", "feedback">>

\* the place of a label in that order
ScanRank(label) == CHOOSE i \in 1..Len(ScanOrder) : ScanOrder[i] = label

\* the labels that occur in the gateway's response
LabelsFound == UNION {LabelsIn(gateway.text[j]) : j \in 1..Len(gateway.text)}

\* C30: when the keyword scan finds more than one intent label in the
\* gateway's response, it returns the one that comes first in the order
\* greetings, query, information, feedback, wherever the labels stand in
\* the text.
C30_FirstLabelInOrder ==
    (ClassifiedFromText /\ via = "keyword" /\ Cardinality(LabelsFound) > 1) =>
        /\ intent \in LabelsFound
        /\ \A l \in LabelsFound : ScanRank(intent) <= ScanRank(l)

\* feedback stands before greetings in the text and greetings is returned
C30_Witness ==
    /\ ClassifiedFromText
    /\ via = "keyword"
    /\ Len(gateway.text) >= 2
    /\ gateway.text[1] = WFeedback
    /\ gateway.text[2] = WGreetings
    /\ intent = "greetings"

(***************************************************************************)
(* The gateway calls of a chat request (Spec).                             *)
(***************************************************************************)
\* how often the event stands in the trace
Count(trace, event) == Cardinality({k \in 1..Len(trace) : trace[k] = event})

\* the events of a gateway call being issued, by stage
CallEvents == {"classify_call", "primary_call", "analyze_call", "generate_call"}

\* the gateway calls a request has issued
CallsIssued(trace) == Cardinality({k \in 1..Len(trace) : trace[k] \in CallEvents})

\* C29: each stage of a chat request issues its gateway call at most once
\* and never again after a failure, so a request makes at most four gateway
\* calls (classify, primary completion, analyze, generate), and at most
\* three, none of them the classification, when its message is empty or
\* holds only whitespace.
C29_CallsBounded ==
    \A i \in Requests :
        LET r == turn[i]
        IN /\ \A e \in CallEvents : Count(r.trace, e) <= 1
           /\ CallsIssued(r.trace) <= 4
           /\ (\A k \in 1..Len(r.message) : r.message[k] = " ") =>
                  /\ CallsIssued(r.trace) <= 3
                  /\ Count(r.trace, "classify_call") = 0
           /\ r.pc = "failed" => r.trace[Len(r.trace)] \notin CallEvents

\* a request with a whitespace-only message has made its three calls and
\* another one all four
C29_Witness ==
    /\ turn["r1"].message = <<" ">>
    /\ turn["r1"].pc = "done"
    /\ CallsIssued(turn["r1"].trace) = 3
    /\ turn["r2"].pc = "done"
    /\ CallsIssued(turn["r2"].trace) = 4
    /\ turn["r2"].gw.generate.kind = "timeout"

(***************************************************************************)
(* Sessions on disk: chat and continue-chat requests (SpecSessions).       *)
(***************************************************************************)
\* the session on disk before the requests arrive, and an id without a file
StoredSessionId == "s1"
MissingSessionId == "s2"

EarlierMessages ==
    <<ChatMessage("user", <<"Hello">>), ChatMessage("assistant", ReplyShort)>>

StoredSessions == [s \in {StoredSessionId} |-> EarlierMessages]

\* load_session: None when there is no file of that id
LoadSession(st, sessionId) ==
    IF sessionId \in DOMAIN st
    THEN [found |-> TRUE, messages |-> st[sessionId]]
    ELSE [found |-> FALSE, messages |-> <<>>]

\* save_session: the file of the session is written anew with its messages
SaveSession(st, sessionId, messages) ==
    [s \in DOMAIN st \cup {sessionId} |->
        IF s = sessionId THEN messages ELSE st[s]]

\* the files written also when the request has failed
StoreAfterAnyEnd(st, r) ==
    IF r.pc \in {"done", "failed"} /\ r.history /= <<>>
    THEN SaveSession(st, r.session, r.history)
    ELSE st

\* the files after a step of continue_chat_endpoint: save_session is reached
\* only at the end of a request that has not failed before
StoreAfter(st, r) ==
    IF r.pc = "done" THEN SaveSession(st, r.session, r.stored) ELSE st

\* a request as continue_chat_endpoint receives it
NewContinue(in, sessionId) ==
    [NewTurn(in) EXCEPT !.pc = "continue_start"] @@ [session |-> sessionId]

\* the request is one of continue_chat_endpoint
IsContinue(r) == "session" \in DOMAIN r

\* continue_chat_endpoint up to its first gateway call: the session is
\* loaded, or the request ends with status 404
ContinueBegin(i) ==
    /\ turn[i].pc = "continue_start"
    /\ LET l == LoadSession(store, turn[i].session)
       IN turn' = [turn EXCEPT ![i] =
              IF ~l.found
              THEN [@ EXCEPT !.pc = "failed", !.status = 404,
                             !.trace = <<"load", "not_found">>]
              ELSE IF EmptyMessage(@.message)
              THEN LET c == ClassifyIntent(@.message, NotCalled)
                   IN [@ EXCEPT !.intent = c.intent, !.confidence = c.confidence,
                                !.history = Append(l.messages,
                                                   ChatMessage("user", turn[i].message)),
                                !.trace = <<"load", "classified", "primary_call">>,
                                !.pc = "continue_await_primary"]
              ELSE [@ EXCEPT !.history = l.messages,
                             !.trace = <<"load", "classify_call">>,
                             !.pc = "continue_await_classify"]]
    /\ UNCHANGED <<pc, message, gateway, calls, intent, confidence, via, tiers,
                   raised, scores, followUpVars, config, textVars, store>>

\* the classification call returns; the user message joins the session
\* object and the primary completion is called
ContinueClassifyReturns(i) ==
    /\ turn[i].pc = "continue_await_classify"
    /\ LET c == ClassifyIntent(turn[i].message, Awaited(turn, i, "classify"))
       IN turn' = [turn EXCEPT ![i] =
              [@ EXCEPT !.intent = c.intent, !.confidence = c.confidence,
                        !.history = Append(@, ChatMessage("user", turn[i].message)),
                        !.trace = @ \o <<"classify_return", "classified",
                                         "primary_call">>,
                        !.pc = "continue_await_primary"]]
    /\ UNCHANGED <<pc, message, gateway, calls, intent, confidence, via, tiers,
                   raised, scores, followUpVars, config, textVars, store>>

\* the primary completion returns: a failure ends the request with status
\* 500; otherwise the reply joins the session object and the gating policy
\* decides whether the analysis is called or the session saved
ContinuePrimaryReturns(i) ==
    /\ turn[i].pc = "continue_await_primary"
    /\ LET r == ChatCompletion(Awaited(turn, i, "primary"))
       IN turn' = [turn EXCEPT ![i] =
              IF r.exc \/ r.null
              THEN [@ EXCEPT !.pc = "failed", !.status = 500,
                             !.trace = @ \o <<"primary_failed">>]
              ELSE LET replied ==
                           [@ EXCEPT !.response = r.text,
                                     !.history = Append(@, ChatMessage("assistant", r.text))]
                   IN IF Gate(replied.intent, r.text)
                      THEN [replied EXCEPT
                                !.gated = "yes",
                                !.trace = @ \o <<"primary_return", "gate_yes",
                                                 "analyze_call">>,
                                !.pc = "continue_await_analyze"]
                      ELSE Finish([replied EXCEPT
                                       !.gated = "no",
                                       !.trace = @ \o <<"primary_return",
                                                        "gate_no">>],
                                  r.text)]
    /\ store' = StoreAfter(store, turn'[i])
    /\ UNCHANGED <<pc, message, gateway, calls, intent, confidence, via, tiers,
                   raised, scores, followUpVars, config, textVars>>

\* the analysis call returns; the question call is made
ContinueAnalyzeReturns(i) ==
    /\ turn[i].pc = "continue_await_analyze"
    /\ LET a == AnalyzeResponse(turn[i].response, turn[i].intent,
                                Awaited(turn, i, "analyze"))
       IN turn' = [turn EXCEPT ![i] =
              IF a.exc
              THEN Finish([@ EXCEPT
                               !.followUps = GetFallbackQuestions(turn[i].intent),
                               !.trace = @ \o <<"analyze_failed">>],
                          AppendFirst(turn[i].response,
                                      GetFallbackQuestions(turn[i].intent)))
              ELSE [@ EXCEPT !.analysis = a.val,
                             !.trace = @ \o <<"analyze_return", "generate_call">>,
                             !.pc = "continue_await_generate"]]
    /\ store' = StoreAfter(store, turn'[i])
    /\ UNCHANGED <<pc, message, gateway, calls, intent, confidence, via, tiers,
                   raised, scores, followUpVars, config, textVars>>

\* the question call returns; the first question is appended to the reply,
\* the session saved and the response returned
ContinueGenerateReturns(i) ==
    /\ turn[i].pc = "continue_await_generate"
    /\ LET g == GenerateQuestions(turn[i].message, turn[i].response,
                                  turn[i].analysis, Awaited(turn, i, "generate"))
           questions == IF g.exc THEN GetFallbackQuestions(turn[i].intent)
                        ELSE g.val
       IN turn' = [turn EXCEPT ![i] =
              Finish([@ EXCEPT !.followUps = questions,
                               !.trace = @ \o <<"generate_return">>],
                     AppendFirst(turn[i].response, questions))]
    /\ store' = StoreAfter(store, turn'[i])
    /\ UNCHANGED <<pc, message, gateway, calls, intent, confidence, via, tiers,
                   raised, scores, followUpVars, config, textVars>>

\* the requests of these runs: their messages and the outcomes of their
\* gateway calls and of the write of the session file
SessionInputs ==
    [message : {<<"what", Blank, "is">>, <<"Thanks", Bang>>},
     gw : [classify : {Transport("timeout", NoText),
                       Transport("content_text", <<WGreetings>>)},
           primary : {Transport("status_error", NoText),
                      Transport("content_text", ReplyShort),
                      Transport("content_text", ReplyLong)},
           analyze : {Transport("content_text",
                                <<AnalysisLine(FALSE, "Type", <<"query">>)>>)},
           generate : {Transport("timeout", NoText),
                       Transport("content_text",
                                 JoinLines(<<QQuoted, QPlain>>))}],
     disk : {"ok", "write_error"}]

SessionRequests ==
    {NewTurn(in) : in \in SessionInputs}
        \cup {NewContinue(in, s) :
                 in \in SessionInputs, s \in {StoredSessionId, MissingSessionId}}

InitSessions ==
    /\ pc = "serving"
    /\ message = <<>>
    /\ intent = ""
    /\ reply = <<>>
    /\ analyzerGw = NotCalled
    /\ generatorGw = NotCalled
    /\ ClassifierIdle
    /\ FollowUpIdle
    /\ config = Configuration
    /\ complexity = ""
    /\ keywords = <<>>
    /\ store = StoredSessions
    /\ turn \in [Requests -> SessionRequests]

NextSessions ==
    \E i \in Requests :
        \/ BeginChat(i)
        \/ ClassifyReturns(i)
        \/ PrimaryReturns(i)
        \/ AnalyzeReturns(i)
        \/ GenerateReturns(i)
        \/ ContinueBegin(i)
        \/ ContinueClassifyReturns(i)
        \/ ContinuePrimaryReturns(i)
        \/ ContinueAnalyzeReturns(i)
        \/ ContinueGenerateReturns(i)

SpecSessions == InitSessions /\ [][NextSessions]_vars

(***************************************************************************)
(* Properties of the stored sessions (SpecSessions).                       *)
(***************************************************************************)
\* the user message and the assistant message of the request stand in the
\* messages, one after the other
HoldsExchange(messages, r) ==
    \E k \in 1..(Len(messages) - 1) :
        /\ messages[k] = ChatMessage("user", r.message)
        /\ messages[k + 1] = ChatMessage("assistant", r.gw.primary.text)

\* C26: when two continue-chat requests for the same session id have both
\* completed, however they interleaved, the stored session holds every
\* message stored before and the user and assistant messages of both
\* requests.
C26_NoLostMessages ==
    \A i, j \in Requests :
        (/\ i /= j
         /\ IsContinue(turn[i]) /\ IsContinue(turn[j])
         /\ turn[i].session = turn[j].session
         /\ turn[i].pc = "done" /\ turn[j].pc = "done") =>
            LET s == store[turn[i].session]
            IN /\ Len(s) = Len(EarlierMessages) + 4
               /\ SubSeq(s, 1, Len(EarlierMessages)) = EarlierMessages
               /\ HoldsExchange(s, turn[i])
               /\ HoldsExchange(s, turn[j])

\* the last two messages of the session object of a request
LastExchange(r) == SubSeq(r.history, Len(r.history) - 1, Len(r.history))

\* C27: in chat and continue-chat the assistant message recorded in the
\* session and written to storage is the primary reply exactly as the
\* gateway returned it; the follow-up question appended to the reply stands
\* only in the message field of the response, never in the stored or the
\* returned conversation history.
C27_HistoryKeepsPrimaryReply ==
    /\ \A i \in Requests :
           LET r == turn[i]
           IN /\ Happened(r.trace, "primary_return") =>
                     /\ Len(r.history) >= 2
                     /\ LastExchange(r) =
                            <<ChatMessage("user", r.message),
                              ChatMessage("assistant", r.gw.primary.text)>>
              /\ r.pc = "done" =>
                     /\ r.stored = r.history
                     /\ r.gated = "yes" =>
                            /\ Len(r.delivered) > Len(r.gw.primary.text)
                            /\ \A k \in 1..Len(r.stored) :
                                   r.stored[k].content /= r.delivered
    /\ \A s \in DOMAIN store : \A k \in 1..Len(store[s]) :
           store[s][k].role = "assistant" =>
               \/ k <= Len(EarlierMessages)
               \/ \E i \in Requests :
                      store[s][k].content = turn[i].gw.primary.text

\* a chat request and a continue-chat request have both delivered a reply
\* with a question appended, and the session on disk ends with the reply
\* as the gateway gave it
C27_Witness ==
    /\ ~IsContinue(turn["r1"])
    /\ turn["r1"].pc = "done"
    /\ turn["r1"].delivered = ReplyLong \o <<Newline, Newline>>
                                  \o SubSeq(QQuoted, 2, Len(QQuoted) - 1)
    /\ turn["r1"].stored[2].content = ReplyLong
    /\ IsContinue(turn["r2"])
    /\ turn["r2"].pc = "done"
    /\ turn["r2"].gated = "yes"
    /\ Len(store[StoredSessionId]) = 4
    /\ store[StoredSessionId][4] = ChatMessage("assistant", ReplyLong)
    /\ turn["r2"].delivered /= ReplyLong

\* the step is one in which the primary completion of request i fails
PrimaryFails(i) ==
    /\ turn[i].pc \in {"await_primary", "continue_await_primary"}
    /\ turn'[i].pc = "failed"

\* C28: when the primary completion fails during chat or continue-chat, the
\* request ends with an error response and the stored sessions are left
\* unchanged: chat creates no session file and continue-chat adds no
\* message to the stored session.
C28_PrimaryFailureLeavesStore ==
    [][\A i \in Requests :
           PrimaryFails(i) =>
               /\ turn'[i].status = 500
               /\ turn'[i].delivered = <<>>
               /\ turn'[i].stored = <<>>
               /\ store' = store]_vars

\* a continue-chat request has failed at its primary completion, after its
\* user message joined its session object, and the session on disk is as
\* before
C28_Witness ==
    /\ IsContinue(turn["r1"])
    /\ turn["r1"].pc = "failed"
    /\ turn["r1"].status = 500
    /\ Happened(turn["r1"].trace, "primary_failed")
    /\ Len(turn["r1"].history) = Len(EarlierMessages) + 1
    /\ store = StoredSessions
    /\ ~IsContinue(turn["r2"])
    /\ turn["r2"].pc = "failed"
    /\ Happened(turn["r2"].trace, "primary_failed")

====
